---- MODULE Spec2Model ----
(***************************************************************************)
(* A model of the region-of-interest engine of fractal-tasks-core:         *)
(*   - lib_regions_of_interest.py: conversion of ROI tables to pixel       *)
(*     indices, origin reset of FOV/well tables, grid ROIs, the zero-origin *)
(*     check of index lists, bounding boxes of label arrays;               *)
(*   - lib_remove_FOV_overlaps.py: overlapping pairs of bounding boxes;    *)
(*   - cellpose_segmentation.py: masked pre/post-processing of one ROI and *)
(*     the per-ROI segmentation loop writing a shared label array;         *)
(*   - lib_ngff.py: acquisition paths of a well, XY coarsening of an image; *)
(*   - tasks/import_ome_zarr.py: the import task and its calls of          *)
(*     write_table.                                                        *)
(*                                                                         *)
(* Physical quantities (micrometers) are integers in a common unit, so     *)
(* that a quotient position / pixel_size is the exact rational n / d; the  *)
(* float32 storage of the tables is not modelled.                          *)
(***************************************************************************)
EXTENDS Integers, Sequences, FiniteSets, TLC

VARIABLES
    pc,                      \* position of the modelled caller
    ROI,                     \* ROI table: sequence of rows (row order = obs_names order)
    full_res_pxl_sizes_zyx,  \* <<z, y, x>> pixel sizes at level 0
    level,                   \* pyramid level
    coarsening_xy,           \* linear coarsening factor in YX
    conv_out,                \* outcome of convert_ROI_table_to_indices
    df,                      \* per-FOV metadata records (the input dataframe)
    adata,                   \* outcome of prepare_FOV_ROI_table / prepare_well_ROI_table
    comp_args,               \* arguments of a compositor call, as they were at the call
    image_array,             \* the caller's intensity array object
    new_label_array,         \* the caller's freshly segmented label array object
    comp_ret,                \* what the compositor call returned or raised
    use_masks,               \* task argument use_masks
    relabeling,              \* task argument relabeling
    dual_channel,            \* a second channel was requested (wavelength_id_c2 / channel_label_c2)
    primary_label,           \* the primary label image, labels/{primary_label_name}/0
    list_indices,            \* pixel index range of every ROI of the table
    ROI_table_obs,           \* obs of every ROI of the table (its label column)
    mask_zarr,               \* the shared output label array
    num_labels_tot,          \* relabeling counter
    i_ROI,                   \* number of ROIs processed so far
    prev_mask_zarr,          \* history: the output label array before the last ROI
    segmented_in,            \* history: per voxel, the ROI whose segmentation produced its object (0: none)
    bounding_box_ROI_table_name, \* task argument: a bounding-box table is requested
    bbox_dataframe_list,     \* the bounding-box tables of the ROIs processed so far
    overlap_list,            \* the overlapping pairs found after the last ROI
    array_shape,             \* <<Z, Y, X>> shape of the image given to get_image_grid_ROIs
    pixels_ZYX,              \* <<z, y, x>> pixel sizes given to get_image_grid_ROIs
    grid_ROI_shape,          \* <<grid_size_y, grid_size_x>>
    grid_out,                \* the table returned by get_image_grid_ROIs
    checked_indices,         \* list of index ranges given to check_valid_ROI_indices
    ROI_table_name,          \* table name given to check_valid_ROI_indices
    check_out,               \* outcome of check_valid_ROI_indices (lib_regions_of_interest.py)
    v1_check_out,            \* outcome of check_valid_ROI_indices (v1_checks.py)
    mask_array,              \* label array given to array_to_bounding_box_table
    pxl_sizes_zyx,           \* its pixel sizes
    origin_zyx,              \* its origin shift, in pixels
    bbox_out,                \* the bounding-box table returned for origin_zyx
    bbox_ref,                \* the bounding-box table returned for the default origin
    bbox_indices,            \* the bounding-box table converted back to pixel indices
    level_2,                 \* a second, coarser pyramid level
    conv_out_2,              \* outcome of convert_ROI_table_to_indices at level_2
    tmp_df,                  \* bounding-box table given to get_overlapping_pairs_3D
    overlap_pxl_sizes,       \* its pixel sizes
    overlap_out,             \* the pairs returned for tmp_df
    overlap_rev,             \* the pairs returned for tmp_df in reverse row order
    table_object,            \* the caller's ROI table object given to a table transformation
    table_at_call,           \* history: the values that table held at the call
    new_adata,               \* what the table transformation returned or raised
    var_names,               \* the columns of the table read by is_ROI_table_valid
    table_attrs,             \* the attributes of its zarr group
    check_use_masks,         \* argument use_masks of is_ROI_table_valid
    columns_out,             \* outcome of are_ROI_table_columns_valid (lib_regions_of_interest.py)
    v1_columns_out,          \* outcome of are_ROI_table_columns_valid (v1_checks.py)
    valid_out,               \* outcome of is_ROI_table_valid (lib_regions_of_interest.py)
    v1_valid_out,            \* outcome of is_ROI_table_valid (v1_checks.py)
    well_images,             \* well.images of the NgffWellMeta object
    acquisition_out,         \* outcome of get_acquisition_paths
    level_pixel_sizes,       \* pixel_sizes_zyx of the NgffImageMeta object, one <<z, y, x>> per level
    ratio_out,               \* outcome of the property NgffImageMeta.coarsening_xy
    tables_group,            \* the sub-groups of image_group["tables"]: table name -> stored table
    tables_attr,             \* the `tables` attribute of image_group["tables"]
    tables_attr_init,        \* history: the `tables` attribute before the first call
    write_log,               \* history: the names of the successful write_table calls, in call order
    last_write,              \* history: the last write_table call, its outcome and the state before it
    import_args,             \* arguments of import_ome_zarr
    image_groups,            \* the image groups of the OME-Zarr, in the order they are processed
    i_image,                 \* number of images processed so far
    import_error             \* the exception that ended import_ome_zarr ("" when none)

conv_vars == <<ROI, full_res_pxl_sizes_zyx, level, coarsening_xy, conv_out>>

origin_vars == <<df, adata>>

comp_vars == <<comp_args, image_array, new_label_array, comp_ret>>

task_args == <<use_masks, relabeling, dual_channel, primary_label,
               list_indices, ROI_table_obs>>

bbox_task_vars == <<bounding_box_ROI_table_name, bbox_dataframe_list, overlap_list>>

loop_vars == <<task_args, mask_zarr, num_labels_tot, i_ROI, prev_mask_zarr,
               segmented_in, bbox_task_vars>>

grid_vars == <<array_shape, pixels_ZYX, grid_ROI_shape, grid_out>>

check_vars == <<checked_indices, ROI_table_name, check_out, v1_check_out>>

bbox_vars == <<mask_array, pxl_sizes_zyx, origin_zyx, bbox_out, bbox_ref, bbox_indices>>

levels_vars == <<level_2, conv_out_2>>

overlap_vars == <<tmp_df, overlap_pxl_sizes, overlap_out, overlap_rev>>

frame_vars == <<table_object, table_at_call, new_adata>>

valid_vars == <<var_names, table_attrs, check_use_masks, columns_out,
                v1_columns_out, valid_out, v1_valid_out>>

acq_vars == <<well_images, acquisition_out>>

ngff_vars == <<level_pixel_sizes, ratio_out>>

tables_vars == <<tables_group, tables_attr, tables_attr_init, write_log, last_write>>

import_vars == <<import_args, image_groups, i_image, import_error>>

ext_vars == <<frame_vars, valid_vars, acq_vars, ngff_vars, tables_vars, import_vars>>

vars == <<pc, conv_vars, origin_vars, comp_vars, loop_vars, grid_vars,
          check_vars, bbox_vars, levels_vars, overlap_vars, ext_vars>>

\* What each part of the model leaves alone.
LibVars == <<grid_vars, check_vars, bbox_vars, overlap_vars>>
NonConvVars == <<origin_vars, comp_vars, loop_vars, LibVars, levels_vars, ext_vars>>
NonOriginVars == <<conv_vars, comp_vars, loop_vars, LibVars, levels_vars, ext_vars>>
NonCompVars == <<conv_vars, origin_vars, loop_vars, LibVars, levels_vars, ext_vars>>
NonLoopVars == <<conv_vars, origin_vars, comp_vars, LibVars, levels_vars, ext_vars>>
NonGridVars == <<conv_vars, origin_vars, comp_vars, loop_vars, check_vars,
                 bbox_vars, overlap_vars, levels_vars, ext_vars>>
NonCheckVars == <<conv_vars, origin_vars, comp_vars, loop_vars, grid_vars,
                  bbox_vars, overlap_vars, levels_vars, ext_vars>>
NonBBoxVars == <<conv_vars, origin_vars, comp_vars, loop_vars, grid_vars,
                 check_vars, overlap_vars, levels_vars, ext_vars>>
NonOverlapVars == <<conv_vars, origin_vars, comp_vars, loop_vars, grid_vars,
                    check_vars, bbox_vars, levels_vars, ext_vars>>
NonLevelsVars == <<origin_vars, comp_vars, loop_vars, LibVars, ext_vars>>
CoreVars == <<conv_vars, origin_vars, comp_vars, loop_vars, LibVars, levels_vars>>

----------------------------------------------------------------------------
(* Bounds of the model *)

MaxImages == 3
MaxNumLevels == 3
MaxWrites == 3
MaxWellImages == 2

MaxRows == 2
MaxLevel == 1
MaxFovs == 2
MaxLabel == 2
MaxROIs == 2
MaxSegLabel == 1

----------------------------------------------------------------------------
(* Integer helpers *)

Abs(n) == IF n < 0 THEN -n ELSE n

Min(a, b) == IF a <= b THEN a ELSE b

Max(a, b) == IF a >= b THEN a ELSE b

RECURSIVE Pow(_, _)
Pow(b, e) == IF e = 0 THEN 1 ELSE b * Pow(b, e - 1)

RECURSIVE SeqMin(_)
SeqMin(s) ==
    IF Len(s) = 1 THEN s[1]
    ELSE LET m == SeqMin(Tail(s)) IN IF s[1] <= m THEN s[1] ELSE m

\* A plausible slip: the comment in the source says "round to lower integer".
FloorDiv(n, d) == n \div d

\* Python's round() on the quotient n / d (d > 0): nearest integer, ties to
\* the even neighbour.
PyRound(n, d) ==
    LET q == n \div d
        r == n % d
    IN  IF 2 * r < d THEN q
        ELSE IF 2 * r > d THEN q + 1
        ELSE IF q % 2 = 0 THEN q ELSE q + 1

----------------------------------------------------------------------------
(* Arrays: a shape and the values in C order; None for an absent array *)

RECURSIVE Size(_)
Size(shape) == IF Len(shape) = 0 THEN 1 ELSE shape[1] * Size(Tail(shape))

ArraysOf(shape, values) == [shape : {shape}, data : [1..Size(shape) -> values]]

NoneArray == [shape |-> <<>>, data |-> <<>>]

ndim(a) == Len(a.shape)

----------------------------------------------------------------------------
(* convert_ROI_table_to_indices *)

\* A plausible slip: every axis scaled by the prefactor.
LevelPxlSizesAllAxes(sizes_zyx, lev, coarsening) ==
    LET prefactor == Pow(coarsening, lev)
    IN  <<sizes_zyx[1] * prefactor, sizes_zyx[2] * prefactor, sizes_zyx[3] * prefactor>>

\* Pyramid-level pixel sizes <<z, y, x>>: only Y and X are scaled.
LevelPxlSizes(sizes_zyx, lev, coarsening) ==
    LET prefactor == Pow(coarsening, lev)
    IN  <<sizes_zyx[1], sizes_zyx[2] * prefactor, sizes_zyx[3] * prefactor>>

\* [start_z, end_z, start_y, end_y, start_x, end_x] of one row, rounded.
RowIndices(row, pxl) ==
    << PyRound(row.z, pxl[1]), PyRound(row.z + row.len_z, pxl[1]),
       PyRound(row.y, pxl[2]), PyRound(row.y + row.len_y, pxl[2]),
       PyRound(row.x, pxl[3]), PyRound(row.x + row.len_x, pxl[3]) >>

\* A plausible slip: only the start along Z is tested.
NegativeStartZ(indices) == indices[1] < 0

\* The guard "if min(indices) < 0".
HasNegativeIndex(indices) == SeqMin(indices) < 0

PrependIndices(list, indices) == <<indices>> \o list

\* list_indices.append(indices[:])
AppendIndices(list, indices) == Append(list, indices)

NoError == [ROI_name |-> 0, zyx_position |-> <<>>, zyx_pxl_sizes |-> <<>>, level |-> 0]

\* The ValueError raised for row number i of the table.
NegativeIndexError(table, i, pxl, lev) ==
    [status |-> "ValueError",
     list_indices |-> <<>>,
     error |-> [ROI_name |-> i,
                zyx_position |-> <<table[i].z, table[i].y, table[i].x>>,
                zyx_pxl_sizes |-> pxl,
                level |-> lev]]

\* The loop over ROI.obs_names, from row i on, with the list built so far.
RECURSIVE ConvertRows(_, _, _, _, _)
ConvertRows(table, i, pxl, lev, list) ==
    IF i > Len(table)
    THEN [status |-> "ok", list_indices |-> list, error |-> NoError]
    ELSE LET indices == RowIndices(table[i], pxl)
         IN  IF HasNegativeIndex(indices)
             THEN NegativeIndexError(table, i, pxl, lev)
             ELSE ConvertRows(table, i + 1, pxl, lev,
                              AppendIndices(list, indices))

convert_ROI_table_to_indices(table, sizes_zyx, lev, coarsening) ==
    IF Len(table) = 0
    THEN [status |-> "ok", list_indices |-> <<>>, error |-> NoError]
    ELSE ConvertRows(table, 1, LevelPxlSizes(sizes_zyx, lev, coarsening), lev, <<>>)

----------------------------------------------------------------------------
(* Inputs of the conversion *)

XPositions == {-1, 0, 3}
YPositions == {-3, 0}
ZPositions == {-1, 0}
XLengths == {1, 2}

RoiRows ==
    [x : XPositions, y : YPositions, z : ZPositions,
     len_x : XLengths, len_y : {2}, len_z : {1}]

RoiTables == UNION { [1..n -> RoiRows] : n \in 0..MaxRows }

PxlSizes == { <<1, 1, 1>>, <<2, 1, 1>>, <<1, 2, 2>> }

CoarseningFactors == {1, 2}

NotCalled == [status |-> "none", list_indices |-> <<>>, error |-> NoError]

ConvIdle ==
    /\ ROI = <<>>
    /\ full_res_pxl_sizes_zyx = <<1, 1, 1>>
    /\ level = 0
    /\ coarsening_xy = 1
    /\ conv_out = NotCalled

OriginIdle ==
    /\ df = <<>>
    /\ adata = [status |-> "none", table |-> <<>>]

CompIdle ==
    /\ comp_args = [call |-> "none"]
    /\ image_array = NoneArray
    /\ new_label_array = NoneArray
    /\ comp_ret = [status |-> "none"]

LoopIdle ==
    /\ use_masks = FALSE
    /\ relabeling = FALSE
    /\ dual_channel = FALSE
    /\ primary_label = NoneArray
    /\ list_indices = <<>>
    /\ ROI_table_obs = <<>>
    /\ mask_zarr = NoneArray
    /\ num_labels_tot = 0
    /\ i_ROI = 0
    /\ prev_mask_zarr = NoneArray
    /\ segmented_in = NoneArray
    /\ bounding_box_ROI_table_name = FALSE
    /\ bbox_dataframe_list = <<>>
    /\ overlap_list = <<>>

NoTable == [status |-> "none", table |-> <<>>]

NoPairs == [status |-> "none", pairs |-> {}]

GridIdle ==
    /\ array_shape = <<>>
    /\ pixels_ZYX = <<>>
    /\ grid_ROI_shape = <<>>
    /\ grid_out = NoTable

CheckIdle ==
    /\ checked_indices = <<>>
    /\ ROI_table_name = ""
    /\ check_out = [status |-> "none"]
    /\ v1_check_out = [status |-> "none"]

BBoxIdle ==
    /\ mask_array = NoneArray
    /\ pxl_sizes_zyx = <<>>
    /\ origin_zyx = <<>>
    /\ bbox_out = NoTable
    /\ bbox_ref = NoTable
    /\ bbox_indices = NotCalled

LevelsIdle ==
    /\ level_2 = 0
    /\ conv_out_2 = NotCalled

OverlapIdle ==
    /\ tmp_df = <<>>
    /\ overlap_pxl_sizes = <<>>
    /\ overlap_out = NoPairs
    /\ overlap_rev = NoPairs

LibIdle == GridIdle /\ CheckIdle /\ BBoxIdle /\ OverlapIdle

FrameIdle ==
    /\ table_object = <<>>
    /\ table_at_call = <<>>
    /\ new_adata = NoTable

NotValidated == [status |-> "none", column |-> "", value |-> "None"]

ValidIdle ==
    /\ var_names = {}
    /\ table_attrs = [keys |-> {}, type |-> "", region_has_path |-> FALSE]
    /\ check_use_masks = FALSE
    /\ columns_out = NotValidated
    /\ v1_columns_out = NotValidated
    /\ valid_out = NotValidated
    /\ v1_valid_out = NotValidated

AcqIdle ==
    /\ well_images = <<>>
    /\ acquisition_out = [status |-> "none", acquisition_dict |-> <<>>]

NgffIdle ==
    /\ level_pixel_sizes = <<>>
    /\ ratio_out = [status |-> "none", value |-> <<>>]

NoWrite == [status |-> "none"]

TablesIdle ==
    /\ tables_group = <<>>
    /\ tables_attr = <<>>
    /\ tables_attr_init = <<>>
    /\ write_log = <<>>
    /\ last_write = NoWrite

ImportIdle ==
    /\ import_args = [call |-> "none"]
    /\ image_groups = <<>>
    /\ i_image = 0
    /\ import_error = ""

ExtIdle == FrameIdle /\ ValidIdle /\ AcqIdle /\ NgffIdle /\ TablesIdle /\ ImportIdle

CoreIdle == ConvIdle /\ OriginIdle /\ CompIdle /\ LoopIdle /\ LibIdle /\ LevelsIdle

ConvInit ==
    /\ pc = "conv_input"
    /\ OriginIdle
    /\ CompIdle
    /\ LoopIdle
    /\ LibIdle
    /\ LevelsIdle
    /\ ExtIdle
    /\ ROI \in RoiTables
    /\ full_res_pxl_sizes_zyx \in PxlSizes
    /\ level \in 0..MaxLevel
    /\ coarsening_xy \in CoarseningFactors
    /\ conv_out = NotCalled

Convert ==
    /\ pc = "conv_input"
    /\ conv_out' = convert_ROI_table_to_indices(ROI, full_res_pxl_sizes_zyx,
                                                level, coarsening_xy)
    /\ pc' = "conv_done"
    /\ UNCHANGED <<ROI, full_res_pxl_sizes_zyx, level, coarsening_xy>>
    /\ UNCHANGED NonConvVars

ConvNext == Convert

SpecConv == ConvInit /\ [][ConvNext]_vars

----------------------------------------------------------------------------
(* convert_ROI_table_to_indices of one ROI at two pyramid levels *)

LevelRows ==
    [x : {-1, 0, 1, 3, 5, 6}, y : {0, 3, 5}, z : {0, 1, 3},
     len_x : XLengths, len_y : {2}, len_z : {1}]

LevelCoarsenings == {1, 2, 3}

LevelsInit ==
    /\ pc = "levels_input"
    /\ OriginIdle
    /\ CompIdle
    /\ LoopIdle
    /\ LibIdle
    /\ ExtIdle
    /\ ROI \in [1..1 -> LevelRows]
    /\ full_res_pxl_sizes_zyx \in PxlSizes
    /\ coarsening_xy \in LevelCoarsenings
    /\ level \in 0..MaxLevel
    /\ level_2 \in (level + 1)..(MaxLevel + 1)
    /\ conv_out = NotCalled
    /\ conv_out_2 = NotCalled

\* The same table converted at level and at the coarser level_2.
ConvertAtLevels ==
    /\ pc = "levels_input"
    /\ conv_out' = convert_ROI_table_to_indices(ROI, full_res_pxl_sizes_zyx,
                                                level, coarsening_xy)
    /\ conv_out_2' = convert_ROI_table_to_indices(ROI, full_res_pxl_sizes_zyx,
                                                  level_2, coarsening_xy)
    /\ pc' = "levels_done"
    /\ UNCHANGED <<ROI, full_res_pxl_sizes_zyx, level, coarsening_xy, level_2>>
    /\ UNCHANGED NonLevelsVars

LevelsNext == ConvertAtLevels

SpecLevels == LevelsInit /\ [][LevelsNext]_vars

----------------------------------------------------------------------------
(* reset_origin, prepare_FOV_ROI_table, prepare_well_ROI_table *)

\* The values of one column, in row order.
Column(table, col) == [i \in 1..Len(table) |-> table[i][col]]

\* A plausible slip: the origin is taken from the first row.
FirstOfColumn(table, col) == table[1][col]

\* min(new_table[:, col].X[:, 0])
ColumnMin(table, col) == SeqMin(Column(table, col))

\* A copy of the table with the x, y, z columns shifted by their minima,
\* computed once before the loop over the rows.
reset_origin(ROI_table) ==
    LET origin_x == ColumnMin(ROI_table, "x")
        origin_y == ColumnMin(ROI_table, "y")
        origin_z == ColumnMin(ROI_table, "z")
    IN  [i \in 1..Len(ROI_table) |->
            [ROI_table[i] EXCEPT !.x = @ - origin_x,
                                 !.y = @ - origin_y,
                                 !.z = @ - origin_z]]

RECURSIVE SeqMax(_)
SeqMax(s) ==
    IF Len(s) = 1 THEN s[1]
    ELSE LET m == SeqMax(Tail(s)) IN IF s[1] >= m THEN s[1] ELSE m

\* min() of an empty column raises ValueError inside reset_origin.
EmptyTableError == [status |-> "ValueError", table |-> <<>>]

\* One row per field of view: box sizes are pixel counts times pixel sizes;
\* the positional columns are kept and the origin is reset.
prepare_FOV_ROI_table(frame) ==
    IF Len(frame) = 0 THEN EmptyTableError
    ELSE LET df_roi == [i \in 1..Len(frame) |->
                 [x |-> frame[i].x_micrometer,
                  y |-> frame[i].y_micrometer,
                  z |-> frame[i].z_micrometer,
                  len_x |-> frame[i].x_pixel * frame[i].pixel_size_x,
                  len_y |-> frame[i].y_pixel * frame[i].pixel_size_y,
                  len_z |-> frame[i].z_pixel * frame[i].pixel_size_z,
                  x_original |-> frame[i].x_micrometer_original,
                  y_original |-> frame[i].y_micrometer_original]]
         IN  [status |-> "ok", table |-> reset_origin(df_roi)]

\* Per axis mu: the minimum of the FOV starts and the maximum of the FOV ends.
WellMin(frame, mu) ==
    SeqMin([i \in 1..Len(frame) |-> frame[i][mu].pos])

\* A plausible slip: the largest start taken as the end of the well.
WellMaxStart(frame, mu) ==
    SeqMax([i \in 1..Len(frame) |-> frame[i][mu].pos])

WellMax(frame, mu) ==
    SeqMax([i \in 1..Len(frame) |->
                frame[i][mu].pos + frame[i][mu].pixel * frame[i][mu].size])

\* The three axes of a FOV record as (pos, pixel, size) triples.
AxesOf(rec) ==
    [x |-> [pos |-> rec.x_micrometer, pixel |-> rec.x_pixel, size |-> rec.pixel_size_x],
     y |-> [pos |-> rec.y_micrometer, pixel |-> rec.y_pixel, size |-> rec.pixel_size_y],
     z |-> [pos |-> rec.z_micrometer, pixel |-> rec.z_pixel, size |-> rec.pixel_size_z]]

\* A single row spanning all fields of view (df.iloc[0:1] after every row
\* was given the well bounding box), then the origin is reset.
prepare_well_ROI_table(frame) ==
    IF Len(frame) = 0 THEN EmptyTableError
    ELSE LET axes == [i \in 1..Len(frame) |-> AxesOf(frame[i])]
             df_roi == << [x |-> WellMin(axes, "x"),
                           y |-> WellMin(axes, "y"),
                           z |-> WellMin(axes, "z"),
                           len_x |-> WellMax(axes, "x") - WellMin(axes, "x"),
                           len_y |-> WellMax(axes, "y") - WellMin(axes, "y"),
                           len_z |-> WellMax(axes, "z") - WellMin(axes, "z")] >>
         IN  [status |-> "ok", table |-> reset_origin(df_roi)]

FovXPositions == {-2, 0, 5}
FovYPositions == {1, 4}
FovZPositions == {0, 3}
FovXPixels == {2, 3}

FovRecords ==
    { [x_micrometer |-> px, y_micrometer |-> py, z_micrometer |-> pz,
       x_pixel |-> nx, y_pixel |-> 2, z_pixel |-> 1,
       pixel_size_x |-> 1, pixel_size_y |-> 2, pixel_size_z |-> 3,
       x_micrometer_original |-> px, y_micrometer_original |-> py] :
      px \in FovXPositions, py \in FovYPositions, pz \in FovZPositions,
      nx \in FovXPixels }

OriginInit ==
    /\ pc = "origin_input"
    /\ ConvIdle
    /\ CompIdle
    /\ LoopIdle
    /\ LibIdle
    /\ LevelsIdle
    /\ ExtIdle
    /\ df \in UNION { [1..n -> FovRecords] : n \in 0..MaxFovs }
    /\ adata = [status |-> "none", table |-> <<>>]

PrepareFOV ==
    /\ pc = "origin_input"
    /\ adata' = prepare_FOV_ROI_table(df)
    /\ pc' = "origin_fov_done"
    /\ UNCHANGED <<df, NonOriginVars>>

PrepareWell ==
    /\ pc = "origin_input"
    /\ adata' = prepare_well_ROI_table(df)
    /\ pc' = "origin_well_done"
    /\ UNCHANGED <<df, NonOriginVars>>

OriginNext == PrepareFOV \/ PrepareWell

SpecOrigin == OriginInit /\ [][OriginNext]_vars

----------------------------------------------------------------------------
(* array_to_bounding_box_table *)

MaxBBoxLabel == 2

\* The smallest element of a non-empty set of integers.
SetMin(S) == CHOOSE m \in S : \A n \in S : m <= n

SetMax(S) == CHOOSE m \in S : \A n \in S : m >= n

\* np.unique: the distinct values, in ascending order.
RECURSIVE Ascending(_)
Ascending(S) ==
    IF S = {} THEN <<>> ELSE <<SetMin(S)>> \o Ascending(S \ {SetMin(S)})

unique(a) == Ascending({ a.data[j] : j \in 1..Len(a.data) })

\* <<z, y, x>> of the j-th value of a 3D array in C order.
CoordsOf(j, shape) ==
    << (j - 1) \div (shape[2] * shape[3]),
       ((j - 1) \div shape[3]) % shape[2],
       (j - 1) % shape[3] >>

\* np.where(mask_array == label)
label_match(mask, label) ==
    { CoordsOf(j, mask.shape) : j \in { k \in 1..Len(mask.data) : mask.data[k] = label } }

\* np.min(label_match, axis=1)[a] and np.max(label_match, axis=1)[a]
MatchMin(match, a) == SetMin({ c[a] : c \in match })

MatchMax(match, a) == SetMax({ c[a] : c \in match })

\* A plausible slip: the largest index taken as the end of the box.
BoxEndInclusive(max_index) == max_index

\* The exclusive end of the box, np.max(...) + 1.
BoxEnd(max_index) == max_index + 1

\* A plausible slip: the edge computed after the origin was shifted.
EdgeAfterShift(max_pos, min_pos, shifted_min_pos) == max_pos - shifted_min_pos

\* length = max - min, computed before the shift of the origin.
EdgeLength(max_pos, min_pos, shifted_min_pos) == max_pos - min_pos

\* A plausible slip: the shift added in pixels.
ShiftInPixels(min_pos, origin, pxl_size) == min_pos + origin

\* zmin += z_origin * pxl_sizes_zyx[0]
ShiftOrigin(min_pos, origin, pxl_size) == min_pos + origin * pxl_size

BBoxColumns ==
    { "x_micrometer", "y_micrometer", "z_micrometer", "len_x_micrometer",
      "len_y_micrometer", "len_z_micrometer", "label" }

\* The body of "for label in labels".
BoundingBoxRow(mask, label, pxl, origin) ==
    LET match == label_match(mask, label)
        lo == [a \in 1..3 |-> MatchMin(match, a) * pxl[a]]
        hi == [a \in 1..3 |-> BoxEnd(MatchMax(match, a)) * pxl[a]]
        shifted == [a \in 1..3 |-> ShiftOrigin(lo[a], origin[a], pxl[a])]
    IN  [x |-> shifted[3], y |-> shifted[2], z |-> shifted[1],
         len_x |-> EdgeLength(hi[3], lo[3], shifted[3]),
         len_y |-> EdgeLength(hi[2], lo[2], shifted[2]),
         len_z |-> EdgeLength(hi[1], lo[1], shifted[1]),
         label |-> label]

array_to_bounding_box_table(mask, pxl, origin) ==
    LET labels == SelectSeq(unique(mask), LAMBDA v : v > 0)
    IN  [status |-> "ok",
         columns |-> BBoxColumns,
         table |-> [i \in 1..Len(labels) |->
                       BoundingBoxRow(mask, labels[i], pxl, origin)]]

MaskShapes == { <<1, 1, 4>>, <<2, 2, 1>> }

MaskArrays3D == UNION { ArraysOf(shape, (-1)..MaxBBoxLabel) : shape \in MaskShapes }

\* Origins are start indices of regions of an image.
Origins == { <<0, 0, 0>>, <<0, 1, 2>>, <<1, 0, 0>> }

BBoxInit ==
    /\ pc = "bbox_input"
    /\ ConvIdle
    /\ OriginIdle
    /\ CompIdle
    /\ LoopIdle
    /\ GridIdle
    /\ CheckIdle
    /\ OverlapIdle
    /\ LevelsIdle
    /\ ExtIdle
    /\ mask_array \in MaskArrays3D
    /\ pxl_sizes_zyx \in PxlSizes
    /\ origin_zyx \in Origins
    /\ bbox_out = NoTable
    /\ bbox_ref = NoTable
    /\ bbox_indices = NotCalled

\* The table for origin_zyx, and the table for the default origin (0, 0, 0).
ExtractBoxes ==
    /\ pc = "bbox_input"
    /\ bbox_out' = array_to_bounding_box_table(mask_array, pxl_sizes_zyx, origin_zyx)
    /\ bbox_ref' = array_to_bounding_box_table(mask_array, pxl_sizes_zyx, <<0, 0, 0>>)
    /\ pc' = "bbox_done"
    /\ UNCHANGED <<mask_array, pxl_sizes_zyx, origin_zyx, bbox_indices, NonBBoxVars>>

\* The bounding-box table converted to indices at level 0 (coarsening_xy
\* keeps its default of 2).
ConvertBoxes ==
    /\ pc = "bbox_done"
    /\ bbox_indices' = convert_ROI_table_to_indices(bbox_out.table, pxl_sizes_zyx, 0, 2)
    /\ pc' = "bbox_converted"
    /\ UNCHANGED <<mask_array, pxl_sizes_zyx, origin_zyx, bbox_out, bbox_ref,
                   NonBBoxVars>>

BBoxNext == ExtractBoxes \/ ConvertBoxes

SpecBBox == BBoxInit /\ [][BBoxNext]_vars

----------------------------------------------------------------------------
(* get_overlapping_pairs_3D (lib_remove_FOV_overlaps): the function is not  *)
(* part of the sources at hand and is modelled after its specification:     *)
(* every bounding box is converted to a pixel index range at level 0 with   *)
(* coarsening 1, and every unordered pair of ranges is tested for           *)
(* intersection on the three axes.                                          *)

MaxBoxes == 3

\* A plausible slip: ranges that only touch counted as intersecting.
AxisTouches(start1, end1, start2, end2) == Max(start1, start2) <= Min(end1, end2)

\* max(start1, start2) < min(end1, end2)
AxisIntersects(start1, end1, start2, end2) == Max(start1, start2) < Min(end1, end2)

\* Intersection of two index ranges [s_z, e_z, s_y, e_y, s_x, e_x].
is_overlapping_3D(r1, r2) ==
    \A a \in 1..3 :
        AxisIntersects(r1[2 * a - 1], r1[2 * a], r2[2 * a - 1], r2[2 * a])

\* The unordered pairs {i, j} of row positions whose boxes overlap.
get_overlapping_pairs_3D(table, pxl) ==
    LET conv == convert_ROI_table_to_indices(table, pxl, 0, 1)
    IN  IF conv.status # "ok"
        THEN [status |-> conv.status, pairs |-> {}]
        ELSE [status |-> "ok",
              pairs |-> { pair \in SUBSET (1..Len(table)) :
                            \E i, j \in pair :
                               /\ i < j
                               /\ pair = {i, j}
                               /\ is_overlapping_3D(conv.list_indices[i],
                                                    conv.list_indices[j]) }]

Reversed(table) == [i \in 1..Len(table) |-> table[Len(table) + 1 - i]]

\* Bounding boxes of whole pixels: start and length in pixels along X, Y, Z.
BoxSpansX == { <<0, 2>>, <<1, 2>>, <<2, 2>> }
BoxSpansY == { <<0, 2>>, <<2, 2>> }
BoxSpansZ == { <<0, 1>>, <<1, 1>> }

OverlapPxlSizes == { <<1, 1, 1>>, <<1, 2, 2>> }

BoxRows(pxl) ==
    { [x |-> sx[1] * pxl[3], len_x |-> sx[2] * pxl[3],
       y |-> sy[1] * pxl[2], len_y |-> sy[2] * pxl[2],
       z |-> sz[1] * pxl[1], len_z |-> sz[2] * pxl[1]] :
        sx \in BoxSpansX, sy \in BoxSpansY, sz \in BoxSpansZ }

OverlapInit ==
    /\ pc = "overlap_input"
    /\ ConvIdle
    /\ OriginIdle
    /\ CompIdle
    /\ LoopIdle
    /\ GridIdle
    /\ CheckIdle
    /\ BBoxIdle
    /\ LevelsIdle
    /\ ExtIdle
    /\ overlap_pxl_sizes \in OverlapPxlSizes
    /\ tmp_df \in UNION { [1..n -> BoxRows(overlap_pxl_sizes)] : n \in 0..MaxBoxes }
    /\ overlap_out = NoPairs
    /\ overlap_rev = NoPairs

\* The pairs of the table, and the pairs of the same boxes in reverse order.
FindOverlaps ==
    /\ pc = "overlap_input"
    /\ overlap_out' = get_overlapping_pairs_3D(tmp_df, overlap_pxl_sizes)
    /\ overlap_rev' = get_overlapping_pairs_3D(Reversed(tmp_df), overlap_pxl_sizes)
    /\ pc' = "overlap_done"
    /\ UNCHANGED <<tmp_df, overlap_pxl_sizes, NonOverlapVars>>

OverlapNext == FindOverlaps

SpecOverlap == OverlapInit /\ [][OverlapNext]_vars

----------------------------------------------------------------------------
(* preprocess_cellpose_input, postprocess_cellpose_output *)

\* primary_label_array != label_value, elementwise.
BackgroundOf(primary_label_array, label_value) ==
    [shape |-> primary_label_array.shape,
     data |-> [i \in 1..Len(primary_label_array.data) |->
                  primary_label_array.data[i] # label_value]]

\* A plausible slip: the background voxels are counted instead.
CountNotEqual(primary_label_array, label_value) ==
    Cardinality({ i \in 1..Len(primary_label_array.data) :
                    primary_label_array.data[i] # label_value })

\* (primary_label_array == label_value).sum()
CountEqual(primary_label_array, label_value) ==
    Cardinality({ i \in 1..Len(primary_label_array.data) :
                    primary_label_array.data[i] = label_value })

\* np.expand_dims(a, axis=0)
ExpandDims0(a) == [shape |-> <<1>> \o a.shape, data |-> a.data]

\* A boolean index must have the length of the indexed array along every
\* dimension it covers: numpy does not broadcast it, and raises IndexError.
BooleanIndexMatches(a, index) ==
    /\ Len(index.shape) <= Len(a.shape)
    /\ \A k \in 1..Len(index.shape) : a.shape[k] = index.shape[k]

\* a[index] = value for a boolean index of the shape of a.
SetWhere(a, index, value) ==
    [a EXCEPT !.data = [i \in 1..Len(a.data) |->
                           IF index.data[i] THEN value ELSE a.data[i]]]

\* A plausible slip: the foreground is overwritten instead of the background.
CopyWhereNot(a, index, b) ==
    [a EXCEPT !.data = [i \in 1..Len(a.data) |->
                           IF index.data[i] THEN a.data[i] ELSE b.data[i]]]

\* a[index] = b[index] for a boolean index with the shape of a and of b.
CopyWhere(a, index, b) ==
    [a EXCEPT !.data = [i \in 1..Len(a.data) |->
                           IF index.data[i] THEN b.data[i] ELSE a.data[i]]]

\* A variant that would work on a copy and leave the argument alone.
OnCopy(before, after) == before

\* An indexed assignment a[index] = ... writes into the argument object
\* itself: the caller's array is the array after the assignment.
InPlace(before, after) == after

\* A plausible slip: the shape of the mask is not compared.
LabelShapesAgree(new_label, old_label, background_3D) ==
    /\ ndim(new_label) = 3
    /\ ndim(old_label) = 3
    /\ old_label.shape = new_label.shape

\* The condition all((...)) of postprocess_cellpose_output.
PostShapesValid(new_label, old_label, background_3D) ==
    /\ ndim(new_label) = 3
    /\ ndim(old_label) = 3
    /\ old_label.shape = new_label.shape
    /\ background_3D.shape = new_label.shape

\* A raised exception: the argument object is left as it is at that point.
PreRaise(kind, image) ==
    [status |-> kind, arg_image |-> image,
     image |-> NoneArray, background_3D |-> NoneArray, current_label |-> NoneArray]

\* The outcome of preprocess_cellpose_input: arg_image is the caller's
\* image_array object after the call; image, background_3D and current_label
\* are the returned triple.  primary and current are the label arrays loaded
\* for the region; obs is ROI_table.obs restricted to row index_ROI.
preprocess_cellpose_input(image, masked, primary, current, obs) ==
    IF ndim(image) # 4 THEN PreRaise("ValueError", image)
    ELSE IF ~masked
    THEN [status |-> "ok", arg_image |-> image, image |-> image,
          background_3D |-> NoneArray, current_label |-> NoneArray]
    ELSE IF "label" \notin obs.columns THEN PreRaise("ValueError", image)
    ELSE IF primary.shape # Tail(image.shape) THEN PreRaise("ValueError", image)
    ELSE LET label_value == obs.label
             background_3D == BackgroundOf(primary, label_value)
         IN  IF CountEqual(primary, label_value) = 0
             THEN PreRaise("ValueError", image)
             ELSE LET background_4D == ExpandDims0(background_3D)
                  IN  IF ~BooleanIndexMatches(image, background_4D)
                      THEN PreRaise("IndexError", image)
                      ELSE LET zeroed == SetWhere(image, background_4D, 0)
                           IN  [status |-> "ok",
                                arg_image |-> InPlace(image, zeroed),
                                image |-> zeroed,
                                background_3D |-> background_3D,
                                current_label |-> current]

\* A plausible slip: the prior labels are restored whether or not masking is
\* enabled.
postprocess_restoring_always(masked, new_label, old_label, background_3D) ==
    IF ~PostShapesValid(new_label, old_label, background_3D)
    THEN [status |-> "ValueError", arg_new_label |-> new_label, labels |-> NoneArray]
    ELSE LET restored == CopyWhere(new_label, background_3D, old_label)
         IN  [status |-> "ok", arg_new_label |-> InPlace(new_label, restored),
              labels |-> restored]

\* The outcome of postprocess_cellpose_output: arg_new_label is the caller's
\* new_label_array object after the call, labels the returned array.
postprocess_cellpose_output(masked, new_label, old_label, background_3D) ==
    IF ~masked
    THEN [status |-> "ok", arg_new_label |-> new_label, labels |-> new_label]
    ELSE IF ~PostShapesValid(new_label, old_label, background_3D)
    THEN [status |-> "ValueError", arg_new_label |-> new_label, labels |-> NoneArray]
    ELSE LET restored == CopyWhere(new_label, background_3D, old_label)
         IN  [status |-> "ok", arg_new_label |-> InPlace(new_label, restored),
              labels |-> restored]

\* Inputs of the two calls.
ImageShapes == { <<1, 1, 1, 2>>, <<2, 1, 1, 2>>, <<1, 1, 2, 1>>, <<1, 1, 2>> }
LabelShapes == { <<1, 1, 2>>, <<1, 2, 1>> }
FlatShapes == { <<1, 2>> }
ImageBases == { -1, 4 }

Images ==
    { [shape |-> sh, data |-> [i \in 1..Size(sh) |-> b + i]] :
        sh \in ImageShapes, b \in ImageBases }

LabelArrays(shapes) == UNION { ArraysOf(sh, 0..MaxLabel) : sh \in shapes }

MaskArrays(shapes) == UNION { ArraysOf(sh, BOOLEAN) : sh \in shapes }

ObsRows ==
    { [columns |-> {"label"}, label |-> v] : v \in 1..MaxLabel }
        \cup { [columns |-> {}, label |-> 0] }

PreArgs ==
    [call : {"pre"}, use_masks : BOOLEAN, image_array : Images,
     primary_label_array : LabelArrays(LabelShapes),
     current_label_array : LabelArrays(LabelShapes),
     obs : ObsRows]

PostArgs ==
    [call : {"post"}, use_masks : BOOLEAN,
     new_label_array : LabelArrays(LabelShapes \cup FlatShapes),
     old_label_array : LabelArrays(LabelShapes \cup FlatShapes),
     background_3D : MaskArrays(LabelShapes \cup FlatShapes)]

CompInit ==
    /\ ConvIdle
    /\ OriginIdle
    /\ LoopIdle
    /\ LibIdle
    /\ LevelsIdle
    /\ ExtIdle
    /\ comp_ret = [status |-> "none"]
    /\ \/ /\ pc = "pre_input"
          /\ comp_args \in PreArgs
          /\ image_array = comp_args.image_array
          /\ new_label_array = NoneArray
       \/ /\ pc = "post_input"
          /\ comp_args \in PostArgs
          /\ image_array = NoneArray
          /\ new_label_array = comp_args.new_label_array

\* The caller invokes preprocess_cellpose_input on its image_array.
Preprocess ==
    /\ pc = "pre_input"
    /\ LET out == preprocess_cellpose_input(image_array, comp_args.use_masks,
                                            comp_args.primary_label_array,
                                            comp_args.current_label_array,
                                            comp_args.obs)
       IN  /\ image_array' = out.arg_image
           /\ comp_ret' = [status |-> out.status, image |-> out.image,
                           background_3D |-> out.background_3D,
                           current_label |-> out.current_label]
    /\ pc' = "pre_done"
    /\ UNCHANGED <<comp_args, new_label_array, NonCompVars>>

\* The caller invokes postprocess_cellpose_output on its new_label_array.
Postprocess ==
    /\ pc = "post_input"
    /\ LET out == postprocess_cellpose_output(comp_args.use_masks, new_label_array,
                                              comp_args.old_label_array,
                                              comp_args.background_3D)
       IN  /\ new_label_array' = out.arg_new_label
           /\ comp_ret' = [status |-> out.status, labels |-> out.labels]
    /\ pc' = "post_done"
    /\ UNCHANGED <<comp_args, image_array, NonCompVars>>

CompNext == Preprocess \/ Postprocess

SpecComp == CompInit /\ [][CompNext]_vars

----------------------------------------------------------------------------
(* The loop over the ROIs of cellpose_segmentation *)

\* Position (in C order) in a ZYX array of the voxel at position j of the
\* region [s_z, e_z, s_y, e_y, s_x, e_x] of it.
VoxelOf(j, indices, shape) ==
    LET n_y == indices[4] - indices[3]
        n_x == indices[6] - indices[5]
        z == indices[1] + ((j - 1) \div (n_y * n_x))
        y == indices[3] + (((j - 1) \div n_x) % n_y)
        x == indices[5] + ((j - 1) % n_x)
    IN  (z * shape[2] + y) * shape[3] + x + 1

RegionShape(indices) ==
    << indices[2] - indices[1], indices[4] - indices[3], indices[6] - indices[5] >>

\* array[s_z:e_z, s_y:e_y, s_x:e_x] for a region inside the array.
LoadRegion(array, indices) ==
    [shape |-> RegionShape(indices),
     data |-> [j \in 1..Size(RegionShape(indices)) |->
                  array.data[VoxelOf(j, indices, array.shape)]]]

\* The positions of the region in the array.
RegionVoxels(indices, shape) ==
    { VoxelOf(j, indices, shape) : j \in 1..Size(RegionShape(indices)) }

\* da.array(new_mask).to_zarr(url=mask_zarr, region=region)
WriteRegion(array, indices, values) ==
    [array EXCEPT !.data =
        [v \in 1..Len(array.data) |->
            IF v \in RegionVoxels(indices, array.shape)
            THEN values.data[CHOOSE j \in 1..Len(values.data) :
                                 VoxelOf(j, indices, array.shape) = v]
            ELSE array.data[v]]]

\* np.max(new_mask)
ArrayMax(a) == SeqMax(a.data)

\* new_mask[new_mask > 0] += num_labels_tot
ShiftLabels(new_mask, shift) ==
    [new_mask EXCEPT !.data = [j \in 1..Len(new_mask.data) |->
                                 IF new_mask.data[j] > 0
                                 THEN new_mask.data[j] + shift
                                 ELSE new_mask.data[j]]]

\* The intensity image of the well; its values play no role in the model of
\* the segmentation, which may return any label array of the region's shape.
\* The label counter stays far below the uint32 limit tested after each ROI.
ImageShapeZYX == <<1, 1, 3>>

data_zyx == [shape |-> ImageShapeZYX, data |-> [v \in 1..Size(ImageShapeZYX) |-> v]]

\* img_np: one channel, or two channels in dual channel mode.
StackChannels(dual, indices) ==
    LET one == LoadRegion(data_zyx, indices)
    IN  IF dual
        THEN [shape |-> <<2>> \o one.shape, data |-> one.data \o one.data]
        ELSE [shape |-> <<1>> \o one.shape, data |-> one.data]

\* What segment_FOV may return for a region.
SegmentResults(indices) == ArraysOf(RegionShape(indices), 0..MaxSegLabel)

\* The segmentation runs at level 0, where the pixel sizes of the level are
\* the full-resolution ones.
actual_res_pxl_sizes_zyx == full_res_pxl_sizes_zyx

\* "for df in bbox_dataframe_list: overlap_list.extend(
\* get_overlapping_pairs_3D(df, full_res_pxl_sizes_zyx))": what each
\* dataframe contributes to overlap_list, in the order of the dataframes.
OverlapsPerDataframe(dataframes) ==
    [k \in 1..Len(dataframes) |->
        get_overlapping_pairs_3D(dataframes[k].table, full_res_pxl_sizes_zyx).pairs]

\* History of the objects of a region after ROI number n was processed: a
\* voxel of the restored background keeps the ROI it had, a voxel that
\* segment_FOV labelled belongs to ROI n, any other voxel to none.
SegmentedHere(segmented, background_3D, before, n) ==
    [segmented EXCEPT !.data =
        [j \in 1..Len(segmented.data) |->
            IF background_3D # NoneArray /\ background_3D.data[j]
            THEN before.data[j]
            ELSE IF segmented.data[j] > 0 THEN n ELSE 0]]

\* Inputs of the task.
PrimaryLabelImages ==
    { [shape |-> ImageShapeZYX, data |-> d] : d \in { <<1, 2, 2>>, <<1, 0, 2>> } }

RoiEntries ==
    { [indices |-> <<0, 1, 0, 1, 0, 2>>, label |-> 1],
      [indices |-> <<0, 1, 0, 1, 0, 3>>, label |-> 2],
      [indices |-> <<0, 1, 0, 1, 1, 3>>, label |-> 2],
      [indices |-> <<0, 1, 0, 1, 0, 2>>, label |-> 3] }

RoiLists == UNION { [1..n -> RoiEntries] : n \in 0..MaxROIs }

LoopInit ==
    /\ pc = "loop"
    /\ ConvIdle
    /\ OriginIdle
    /\ CompIdle
    /\ LibIdle
    /\ LevelsIdle
    /\ ExtIdle
    /\ bounding_box_ROI_table_name \in BOOLEAN
    /\ bbox_dataframe_list = <<>>
    /\ overlap_list = <<>>
    /\ use_masks \in BOOLEAN
    /\ relabeling \in BOOLEAN
    /\ dual_channel \in BOOLEAN
    /\ primary_label \in PrimaryLabelImages
    /\ \E rois \in RoiLists :
          /\ list_indices = [i \in 1..Len(rois) |-> rois[i].indices]
          /\ ROI_table_obs = [i \in 1..Len(rois) |->
                                 [columns |-> {"label"}, label |-> rois[i].label]]
    /\ mask_zarr = [shape |-> ImageShapeZYX,
                    data |-> [v \in 1..Size(ImageShapeZYX) |-> 0]]
    /\ num_labels_tot = 0
    /\ i_ROI = 0
    /\ prev_mask_zarr = mask_zarr
    /\ segmented_in = mask_zarr

\* One iteration of "for i_ROI, indices in enumerate(list_indices)": load the
\* region, preprocess, segment, postprocess, relabel, write to the output.
ProcessROI ==
    /\ pc = "loop"
    /\ i_ROI < Len(list_indices)
    /\ LET indices == list_indices[i_ROI + 1]
           img_np == StackChannels(dual_channel, indices)
           pre == preprocess_cellpose_input(
                      img_np, use_masks,
                      LoadRegion(primary_label, indices),
                      LoadRegion(mask_zarr, indices),
                      ROI_table_obs[i_ROI + 1])
       IN  IF pre.status # "ok"
           THEN /\ pc' = "loop_failed"
                /\ UNCHANGED <<mask_zarr, num_labels_tot, i_ROI, prev_mask_zarr,
                               segmented_in, bbox_dataframe_list, overlap_list>>
           ELSE \E segmented \in SegmentResults(indices) :
                  LET post == postprocess_cellpose_output(
                                  use_masks, segmented,
                                  pre.current_label, pre.background_3D)
                      num_labels_fov == ArrayMax(post.labels)
                      new_mask == IF relabeling
                                  THEN ShiftLabels(post.labels, num_labels_tot)
                                  ELSE post.labels
                  IN  IF post.status # "ok"
                      THEN /\ pc' = "loop_failed"
                           /\ UNCHANGED <<mask_zarr, num_labels_tot, i_ROI,
                                          prev_mask_zarr, segmented_in,
                                          bbox_dataframe_list, overlap_list>>
                      ELSE /\ num_labels_tot' = IF relabeling
                                                THEN num_labels_tot + num_labels_fov
                                                ELSE num_labels_tot
                           /\ prev_mask_zarr' = mask_zarr
                           /\ mask_zarr' = WriteRegion(mask_zarr, indices, new_mask)
                           /\ segmented_in' =
                                 WriteRegion(segmented_in, indices,
                                     SegmentedHere(segmented, pre.background_3D,
                                                   LoadRegion(segmented_in, indices),
                                                   i_ROI + 1))
                           /\ i_ROI' = i_ROI + 1
                           /\ pc' = "loop"
                           /\ IF bounding_box_ROI_table_name
                              THEN LET bbox_df == array_to_bounding_box_table(
                                                      new_mask,
                                                      actual_res_pxl_sizes_zyx,
                                                      <<0, 0, 0>>)
                                   IN  /\ bbox_dataframe_list' =
                                             Append(bbox_dataframe_list, bbox_df)
                                       /\ overlap_list' =
                                             OverlapsPerDataframe(
                                                 Append(bbox_dataframe_list, bbox_df))
                              ELSE UNCHANGED <<bbox_dataframe_list, overlap_list>>
    /\ UNCHANGED <<task_args, bounding_box_ROI_table_name, NonLoopVars>>

\* The loop is over: the pyramid of the output is built from mask_zarr.
FinishLoop ==
    /\ pc = "loop"
    /\ i_ROI = Len(list_indices)
    /\ pc' = "loop_end"
    /\ UNCHANGED <<loop_vars, NonLoopVars>>

LoopNext == ProcessROI \/ FinishLoop

SpecLoop == LoopInit /\ [][LoopNext]_vars

----------------------------------------------------------------------------
(* get_image_grid_ROIs *)

MaxExtent == 5
MaxGrid == 4

\* math.ceil(a / b) for b > 0
CeilDiv(a, b) == -((-a) \div b)

\* "if grid_ROI_shape is None: grid_ROI_shape = (2, 2)"; None is <<>>.
GridShapeOf(grid) == IF grid = <<>> THEN <<2, 2>> ELSE grid

\* tmp_len = min(shape, start + len) - start
CellLength(shape, start, len) == Min(shape, start + len) - start

\* The row appended for the cell (ind_y, ind_x), named ROI_{counter}.
GridRow(shape, pixels, grid, ind_y, ind_x, counter) ==
    LET len_y == CeilDiv(shape[2], grid[1])
        len_x == CeilDiv(shape[3], grid[2])
        start_z == 0
        len_z == shape[1]
        start_y == ind_y * len_y
        tmp_len_y == CellLength(shape[2], start_y, len_y)
        start_x == ind_x * len_x
        tmp_len_x == CellLength(shape[3], start_x, len_x)
    IN  [name |-> counter,
         x |-> start_x * pixels[3],
         y |-> start_y * pixels[2],
         z |-> start_z * pixels[1],
         len_x |-> tmp_len_x * pixels[3],
         len_y |-> tmp_len_y * pixels[2],
         len_z |-> len_z * pixels[1],
         x_original |-> start_x * pixels[3],
         y_original |-> start_y * pixels[2]]

\* The two nested loops: ind_y outer, ind_x inner, counter incremented per cell.
get_image_grid_ROIs(shape, pixels, grid_shape) ==
    LET grid == GridShapeOf(grid_shape)
    IN  [status |-> "ok",
         table |-> [counter \in 1..(grid[1] * grid[2]) |->
                       GridRow(shape, pixels, grid,
                               (counter - 1) \div grid[2],
                               (counter - 1) % grid[2],
                               counter)]]

ImageShapesZYX == { <<z, y, x>> : z \in 1..2, y \in 1..MaxExtent, x \in 1..MaxExtent }

GridShapes == { <<>> } \cup { <<gy, gx>> : gy \in 1..MaxGrid, gx \in 1..MaxGrid }

GridInit ==
    /\ pc = "grid_input"
    /\ ConvIdle
    /\ OriginIdle
    /\ CompIdle
    /\ LoopIdle
    /\ CheckIdle
    /\ BBoxIdle
    /\ OverlapIdle
    /\ LevelsIdle
    /\ ExtIdle
    /\ array_shape \in ImageShapesZYX
    /\ pixels_ZYX \in PxlSizes
    /\ grid_ROI_shape \in GridShapes
    /\ grid_out = NoTable

BuildGrid ==
    /\ pc = "grid_input"
    /\ grid_out' = get_image_grid_ROIs(array_shape, pixels_ZYX, grid_ROI_shape)
    /\ pc' = "grid_done"
    /\ UNCHANGED <<array_shape, pixels_ZYX, grid_ROI_shape, NonGridVars>>

GridNext == BuildGrid

SpecGrid == GridInit /\ [][GridNext]_vars

----------------------------------------------------------------------------
(* check_valid_ROI_indices, in lib_regions_of_interest.py and in v1_checks.py *)

MaxEntries == 2

Returned == [status |-> "ok", axis |-> "", min_index |-> 0, message |-> ""]

\* min() of an empty generator raises ValueError before any axis is looked at.
EmptyMinError ==
    [status |-> "ValueError", axis |-> "", min_index |-> 0,
     message |-> "min() arg is an empty sequence"]

NonZeroOriginError(axis, min_index) ==
    [status |-> "ValueError", axis |-> axis, min_index |-> min_index,
     message |-> "do not start with 0"]

\* min(item[k] for item in list)
MinOfItems(list, k) == SeqMin([i \in 1..Len(list) |-> list[i][k]])

\* The loop over (min_start_z, min_start_y, min_start_x): the first non-zero
\* minimum raises.
FirstNonZero(mins) ==
    IF mins[1] # 0 THEN NonZeroOriginError("Z", mins[1])
    ELSE IF mins[2] # 0 THEN NonZeroOriginError("Y", mins[2])
    ELSE IF mins[3] # 0 THEN NonZeroOriginError("X", mins[3])
    ELSE Returned

check_valid_ROI_indices(list, name) ==
    IF name \notin {"FOV_ROI_table", "well_ROI_table"} THEN Returned
    ELSE IF Len(list) = 0 THEN EmptyMinError
    ELSE FirstNonZero(<< MinOfItems(list, 1), MinOfItems(list, 3),
                         MinOfItems(list, 5) >>)

\* The copy of the function in lib_regions_of_interest/v1_checks.py.
v1_check_valid_ROI_indices(list, name) ==
    IF name \notin {"FOV_ROI_table", "well_ROI_table"} THEN Returned
    ELSE IF Len(list) = 0 THEN EmptyMinError
    ELSE FirstNonZero(<< MinOfItems(list, 1), MinOfItems(list, 3),
                         MinOfItems(list, 5) >>)

StartIndices == {-1, 0, 1}

\* [start_z, end_z, start_y, end_y, start_x, end_x]
IndexItems ==
    { <<z, z + 1, y, y + 2, x, x + 2>> :
        z \in StartIndices, y \in StartIndices, x \in StartIndices }

IndexLists == UNION { [1..n -> IndexItems] : n \in 0..MaxEntries }

TableNames ==
    { "FOV_ROI_table", "well_ROI_table", "registered_FOV_ROI_table",
      "nuclei_ROI_table" }

CheckInit ==
    /\ pc = "check_input"
    /\ ConvIdle
    /\ OriginIdle
    /\ CompIdle
    /\ LoopIdle
    /\ GridIdle
    /\ BBoxIdle
    /\ OverlapIdle
    /\ LevelsIdle
    /\ ExtIdle
    /\ checked_indices \in IndexLists
    /\ ROI_table_name \in TableNames
    /\ check_out = [status |-> "none"]
    /\ v1_check_out = [status |-> "none"]

CheckIndices ==
    /\ pc = "check_input"
    /\ check_out' = check_valid_ROI_indices(checked_indices, ROI_table_name)
    /\ v1_check_out' = v1_check_valid_ROI_indices(checked_indices, ROI_table_name)
    /\ pc' = "check_done"
    /\ UNCHANGED <<checked_indices, ROI_table_name, NonCheckVars>>

CheckNext == CheckIndices

SpecCheck == CheckInit /\ [][CheckNext]_vars

----------------------------------------------------------------------------
(* convert_ROI_table_to_indices followed by check_valid_ROI_indices *)

ChainInit ==
    /\ pc = "conv_input"
    /\ OriginIdle
    /\ CompIdle
    /\ LoopIdle
    /\ GridIdle
    /\ BBoxIdle
    /\ OverlapIdle
    /\ LevelsIdle
    /\ ExtIdle
    /\ ROI \in RoiTables
    /\ full_res_pxl_sizes_zyx \in PxlSizes
    /\ level \in 0..MaxLevel
    /\ coarsening_xy \in CoarseningFactors
    /\ conv_out = NotCalled
    /\ checked_indices = <<>>
    /\ ROI_table_name \in TableNames
    /\ check_out = [status |-> "none"]
    /\ v1_check_out = [status |-> "none"]

\* The list returned by the conversion is given to check_valid_ROI_indices,
\* together with the name of the table.
CheckConverted ==
    /\ pc = "conv_done"
    /\ conv_out.status = "ok"
    /\ checked_indices' = conv_out.list_indices
    /\ check_out' = check_valid_ROI_indices(conv_out.list_indices, ROI_table_name)
    /\ v1_check_out' = v1_check_valid_ROI_indices(conv_out.list_indices,
                                                  ROI_table_name)
    /\ pc' = "conv_checked"
    /\ UNCHANGED <<ROI_table_name, NonCheckVars>>

ChainNext == Convert \/ CheckConverted

SpecChain == ChainInit /\ [][ChainNext]_vars

----------------------------------------------------------------------------
(* reset_origin and convert_ROIs_from_3D_to_2D as calls on a table object *)

\* A plausible slip: new_table = ROI_table binds the argument object itself,
\* so that the writes of the loop reach the caller's table.
SameTableObject(before, written) == written

\* new_table = ROI_table.copy() (and adata.to_df(), which builds a new
\* dataframe): the writes go to the copy and the argument object stays as it
\* was.
TableCopy(before, written) == before

\* The outcome of a call of reset_origin: arg_table is the caller's table
\* object after the call, table the returned one.  min() of an empty column
\* raises ValueError.
reset_origin_call(ROI_table) ==
    IF Len(ROI_table) = 0
    THEN [status |-> "ValueError", arg_table |-> ROI_table, table |-> <<>>]
    ELSE [status |-> "ok",
          arg_table |-> TableCopy(ROI_table, reset_origin(ROI_table)),
          table |-> reset_origin(ROI_table)]

\* df["len_z_micrometer"] = pixel_size_z, on the dataframe made of the table.
SetLenZ(frame, pixel_size_z) ==
    [i \in 1..Len(frame) |-> [frame[i] EXCEPT !.len_z = pixel_size_z]]

\* The outcome of a call of convert_ROIs_from_3D_to_2D: the new table has the
\* obs_names and the columns of the dataframe.
convert_ROIs_from_3D_to_2D(table, pixel_size_z) ==
    [status |-> "ok",
     arg_table |-> TableCopy(table, SetLenZ(table, pixel_size_z)),
     table |-> SetLenZ(table, pixel_size_z)]

\* Input tables: rows with a name (obs_names), positions, extents and the
\* original positions.
FramePositionsX == {-1, 0, 3}
FramePositionsY == {0, 2}
FramePositionsZ == {0, 1}

FrameRows(name) ==
    [name : {name}, x : FramePositionsX, y : FramePositionsY, z : FramePositionsZ,
     len_x : {1, 2}, len_y : {2}, len_z : {3},
     x_original : {10}, y_original : {20}]

ObsNames == << "FOV_2", "FOV_1", "FOV_3", "FOV_4" >>

FrameTables ==
    UNION { { t \in [1..n -> UNION { FrameRows(ObsNames[k]) : k \in 1..n }] :
                \A i \in 1..n : t[i].name = ObsNames[i] } : n \in 0..MaxRows }

PixelSizesZ == {1, 2}

FrameInit ==
    /\ pc = "frame_input"
    /\ CoreIdle
    /\ ValidIdle
    /\ AcqIdle
    /\ NgffIdle
    /\ TablesIdle
    /\ ImportIdle
    /\ table_object \in FrameTables
    /\ table_at_call = table_object
    /\ new_adata = NoTable

ResetOrigin ==
    /\ pc = "frame_input"
    /\ LET out == reset_origin_call(table_object)
       IN  /\ table_object' = out.arg_table
           /\ new_adata' = [status |-> out.status, table |-> out.table]
    /\ pc' = "reset_done"
    /\ UNCHANGED <<table_at_call, CoreVars, valid_vars, acq_vars, ngff_vars,
                   tables_vars, import_vars>>

Convert3DTo2D ==
    /\ pc = "frame_input"
    /\ \E pixel_size_z \in PixelSizesZ :
          LET out == convert_ROIs_from_3D_to_2D(table_object, pixel_size_z)
          IN  /\ table_object' = out.arg_table
              /\ new_adata' = [status |-> out.status, table |-> out.table]
    /\ pc' = "to_2D_done"
    /\ UNCHANGED <<table_at_call, CoreVars, valid_vars, acq_vars, ngff_vars,
                   tables_vars, import_vars>>

FrameNext == ResetOrigin \/ Convert3DTo2D

SpecFrame == FrameInit /\ [][FrameNext]_vars

----------------------------------------------------------------------------
(* are_ROI_table_columns_valid and is_ROI_table_valid, in                  *)
(* lib_regions_of_interest.py and in v1_checks.py                          *)

\* The list "columns" of are_ROI_table_columns_valid, in its order.
RequiredColumns ==
    << "x_micrometer", "y_micrometer", "z_micrometer",
       "len_x_micrometer", "len_y_micrometer", "len_z_micrometer" >>

\* A plausible slip: the loop goes on and the last missing column is reported.
LastMissing(missing) == SetMax(missing)

\* "for column in columns": the first column not in table.var_names raises.
FirstMissing(missing) == SetMin(missing)

ColumnError(column) == [status |-> "ValueError", column |-> column, value |-> "None"]

ReturnedValue(value) == [status |-> "ok", column |-> "", value |-> value]

are_ROI_table_columns_valid(names) ==
    LET missing == { k \in 1..Len(RequiredColumns) : RequiredColumns[k] \notin names }
    IN  IF missing # {}
        THEN ColumnError(RequiredColumns[FirstMissing(missing)])
        ELSE ReturnedValue("None")

\* The copy of the function in lib_regions_of_interest/v1_checks.py.
v1_are_ROI_table_columns_valid(names) ==
    LET missing == { k \in 1..Len(RequiredColumns) : RequiredColumns[k] \notin names }
    IN  IF missing # {}
        THEN ColumnError(RequiredColumns[FirstMissing(missing)])
        ELSE ReturnedValue("None")

\* The soft constraint of lib_regions_of_interest.py on the attributes.
MaskedLoadingAttrsValid(group_attrs) ==
    /\ {"type", "region", "instance_key"} \subseteq group_attrs.keys
    /\ group_attrs.type = "ngff:region_table"
    /\ group_attrs.region_has_path

\* _MaskingROITableAttrs(**attrs) of v1_checks.py validates.
v1_MaskingROITableAttrs(group_attrs) ==
    /\ {"type", "region", "instance_key"} \subseteq group_attrs.keys
    /\ group_attrs.type \in {"ngff:region_table", "masking_roi_table"}
    /\ group_attrs.region_has_path

is_ROI_table_valid(names, masks, group_attrs) ==
    LET columns == are_ROI_table_columns_valid(names)
    IN  IF columns.status # "ok" THEN columns
        ELSE IF ~masks THEN ReturnedValue("None")
        ELSE IF MaskedLoadingAttrsValid(group_attrs) THEN ReturnedValue("True")
        ELSE ReturnedValue("False")

v1_is_ROI_table_valid(names, masks, group_attrs) ==
    LET columns == v1_are_ROI_table_columns_valid(names)
    IN  IF columns.status # "ok" THEN columns
        ELSE IF ~masks THEN ReturnedValue("None")
        ELSE IF v1_MaskingROITableAttrs(group_attrs) THEN ReturnedValue("True")
        ELSE ReturnedValue("False")

\* Tables with any of the required columns and with other columns.
TableColumns ==
    { RequiredColumns[k] : k \in 1..Len(RequiredColumns) }
        \cup { "x_micrometer_original", "label" }

GroupAttrs ==
    [keys : { {}, {"type", "region"}, {"type", "region", "instance_key"} },
     type : { "ngff:region_table", "masking_roi_table", "feature_table" },
     region_has_path : BOOLEAN]

ValidInit ==
    /\ pc = "valid_input"
    /\ CoreIdle
    /\ FrameIdle
    /\ AcqIdle
    /\ NgffIdle
    /\ TablesIdle
    /\ ImportIdle
    /\ var_names \in SUBSET TableColumns
    /\ table_attrs \in GroupAttrs
    /\ check_use_masks \in BOOLEAN
    /\ columns_out = NotValidated
    /\ v1_columns_out = NotValidated
    /\ valid_out = NotValidated
    /\ v1_valid_out = NotValidated

ValidateTable ==
    /\ pc = "valid_input"
    /\ columns_out' = are_ROI_table_columns_valid(var_names)
    /\ v1_columns_out' = v1_are_ROI_table_columns_valid(var_names)
    /\ valid_out' = is_ROI_table_valid(var_names, check_use_masks, table_attrs)
    /\ v1_valid_out' = v1_is_ROI_table_valid(var_names, check_use_masks, table_attrs)
    /\ pc' = "valid_done"
    /\ UNCHANGED <<var_names, table_attrs, check_use_masks, CoreVars, frame_vars,
                   acq_vars, ngff_vars, tables_vars, import_vars>>

ValidNext == ValidateTable

SpecValid == ValidInit /\ [][ValidNext]_vars

----------------------------------------------------------------------------
(* NgffWellMeta.get_acquisition_paths (lib_ngff.py) *)

\* A plausible slip: the test for a repeated acquisition is left out, and a
\* later image replaces the entry of an earlier one.
NeverInDict(acquisition, acquisition_dict) == FALSE

\* image.acquisition in acquisition_dict
InDict(acquisition, acquisition_dict) == acquisition \in DOMAIN acquisition_dict

\* acquisition_dict[image.acquisition] = image.path
SetItem(acquisition_dict, key, value) ==
    [k \in DOMAIN acquisition_dict \cup {key} |->
        IF k = key THEN value ELSE acquisition_dict[k]]

\* The loop "for image in self.well.images", from image number k on.  An
\* image's acquisition is <<>> for None and <<n>> for the integer n.
RECURSIVE AcquisitionLoop(_, _, _)
AcquisitionLoop(images, k, acquisition_dict) ==
    IF k > Len(images)
    THEN [status |-> "ok", acquisition_dict |-> acquisition_dict]
    ELSE IF images[k].acquisition = <<>>
    THEN [status |-> "ValueError", acquisition_dict |-> <<>>]
    ELSE IF InDict(images[k].acquisition[1], acquisition_dict)
    THEN [status |-> "NotImplementedError", acquisition_dict |-> <<>>]
    ELSE AcquisitionLoop(images, k + 1,
             SetItem(acquisition_dict, images[k].acquisition[1], images[k].path))

get_acquisition_paths(images) == AcquisitionLoop(images, 1, <<>>)

\* Image: acquisition is Optional[int], path a string; Well.images has at
\* least one item.
WellImages ==
    [acquisition : { <<>>, <<1>>, <<2>>, <<3>> }, path : { "0", "1", "2" }]

AcqInit ==
    /\ pc = "acq_input"
    /\ CoreIdle
    /\ FrameIdle
    /\ ValidIdle
    /\ NgffIdle
    /\ TablesIdle
    /\ ImportIdle
    /\ well_images \in UNION { [1..n -> WellImages] : n \in 1..MaxImages }
    /\ acquisition_out = [status |-> "none", acquisition_dict |-> <<>>]

GetAcquisitionPaths ==
    /\ pc = "acq_input"
    /\ acquisition_out' = get_acquisition_paths(well_images)
    /\ pc' = "acq_done"
    /\ UNCHANGED <<well_images, CoreVars, frame_vars, valid_vars, ngff_vars,
                   tables_vars, import_vars>>

SpecAcq == AcqInit /\ [][GetAcquisitionPaths]_vars

----------------------------------------------------------------------------
(* NgffImageMeta.coarsening_xy (lib_ngff.py) *)

\* A plausible slip: the X and Y ratios of a level step are not compared.
RatiosNotCompared(ratio_x, ratio_y) == TRUE

\* not (ratio_x != ratio_y)
RatiosAgree(ratio_x, ratio_y) == ratio_x = ratio_y

InhomogeneousCoarsening == [status |-> "NotImplementedError", value |-> <<>>]

\* The loop "for ind in range(1, self.num_levels)" from level number ind on
\* (ind counts from 0, as in the code).  current_ratio is <<>> for None and
\* <<r>> for the integer r.
RECURSIVE CoarseningLoop(_, _, _)
CoarseningLoop(sizes, ind, current_ratio) ==
    IF ind >= Len(sizes)
    THEN [status |-> "ok", value |-> current_ratio]
    ELSE LET ratio_x == PyRound(sizes[ind + 1][3], sizes[ind][3])
             ratio_y == PyRound(sizes[ind + 1][2], sizes[ind][2])
         IN  IF ~RatiosAgree(ratio_x, ratio_y) THEN InhomogeneousCoarsening
             ELSE IF current_ratio = <<>>
             THEN CoarseningLoop(sizes, ind + 1, <<ratio_x>>)
             ELSE IF current_ratio[1] # ratio_x THEN InhomogeneousCoarsening
             ELSE CoarseningLoop(sizes, ind + 1, current_ratio)

NgffImageMeta_coarsening_xy(sizes) == CoarseningLoop(sizes, 1, <<>>)

\* Pixel sizes of the levels of an image: at least one level.
LevelSizesYX == {2, 4, 5, 8}

LevelPixelSizes == { <<1, y, x>> : y \in LevelSizesYX, x \in LevelSizesYX }

NgffInit ==
    /\ pc = "ngff_input"
    /\ CoreIdle
    /\ FrameIdle
    /\ ValidIdle
    /\ AcqIdle
    /\ TablesIdle
    /\ ImportIdle
    /\ level_pixel_sizes \in
          UNION { [1..n -> LevelPixelSizes] : n \in 1..MaxNumLevels }
    /\ ratio_out = [status |-> "none", value |-> <<>>]

GetCoarseningXY ==
    /\ pc = "ngff_input"
    /\ ratio_out' = NgffImageMeta_coarsening_xy(level_pixel_sizes)
    /\ pc' = "ngff_done"
    /\ UNCHANGED <<level_pixel_sizes, CoreVars, frame_vars, valid_vars, acq_vars,
                   tables_vars, import_vars>>

SpecNgff == NgffInit /\ [][GetCoarseningXY]_vars

----------------------------------------------------------------------------
(* write_table (lib_write / lib_tables): the function is not part of the    *)
(* sources at hand, only its callers are (import_ome_zarr.py and            *)
(* test_unit_tables.py).  It is modelled after what is specified of it:     *)
(* with overwrite=False a table name that exists as a sub-group ("Sub-group *)
(* ...") or as an item of the `tables` attribute ("Item ...") raises        *)
(* OverwriteNotAllowedError and nothing is written; otherwise the table is  *)
(* stored under its name and the name is listed in `tables` once.           *)

\* The items of a list.
Items(list) == { list[i] : i \in 1..Len(list) }

\* A plausible slip: the name is appended at every write.
AppendAgain(current_tables, table_name) == Append(current_tables, table_name)

\* The `tables` attribute after a write: a name already listed stays where
\* it is, a new name is appended.
UpdatedTables(current_tables, table_name) ==
    IF table_name \in Items(current_tables) THEN current_tables
    ELSE Append(current_tables, table_name)

\* group[table_name] = table
StoreTable(group, table_name, table) ==
    [n \in DOMAIN group \cup {table_name} |->
        IF n = table_name THEN table ELSE group[n]]

\* The outcome of write_table(image_group, table_name, table, overwrite):
\* group and tables are the sub-groups and the `tables` attribute after it.
write_table(group, current_tables, table_name, table, overwrite) ==
    IF ~overwrite /\ table_name \in DOMAIN group
    THEN [status |-> "OverwriteNotAllowedError", message |-> "Sub-group",
          group |-> group, tables |-> current_tables]
    ELSE IF ~overwrite /\ table_name \in Items(current_tables)
    THEN [status |-> "OverwriteNotAllowedError", message |-> "Item",
          group |-> group, tables |-> current_tables]
    ELSE [status |-> "ok", message |-> "",
          group |-> StoreTable(group, table_name, table),
          tables |-> UpdatedTables(current_tables, table_name)]

\* The calls of test_write_table: two tables, told apart by their shape.
WrittenNames == { "table_a", "table_b" }

WrittenTables == { 1, 2 }

\* An image group as the calls may find it: sub-groups created before (with
\* or without an item in `tables`) and items listed before.
StoredGroups == UNION { [names -> {1}] : names \in SUBSET WrittenNames }

ListedTables ==
    { <<>>, <<"table_a">>, <<"table_b">>, <<"table_a", "table_b">>,
      <<"table_b", "table_a">> }

TablesInit ==
    /\ pc = "tables"
    /\ CoreIdle
    /\ FrameIdle
    /\ ValidIdle
    /\ AcqIdle
    /\ NgffIdle
    /\ ImportIdle
    /\ tables_group \in StoredGroups
    /\ tables_attr \in ListedTables
    /\ tables_attr_init = tables_attr
    /\ write_log = <<>>
    /\ last_write = NoWrite

WriteTable ==
    /\ pc = "tables"
    /\ Len(write_log) < MaxWrites
    /\ \E table_name \in WrittenNames, table \in WrittenTables, overwrite \in BOOLEAN :
          LET out == write_table(tables_group, tables_attr, table_name, table,
                                 overwrite)
          IN  /\ tables_group' = out.group
              /\ tables_attr' = out.tables
              /\ write_log' = IF out.status = "ok"
                              THEN Append(write_log, table_name) ELSE write_log
              /\ last_write' = [status |-> out.status, message |-> out.message,
                                table_name |-> table_name, table |-> table,
                                overwrite |-> overwrite,
                                group_before |-> tables_group,
                                tables_before |-> tables_attr]
    /\ pc' = "tables"
    /\ UNCHANGED <<tables_attr_init, CoreVars, frame_vars, valid_vars, acq_vars,
                   ngff_vars, import_vars>>

SpecTables == TablesInit /\ [][WriteTable]_vars

----------------------------------------------------------------------------
(* import_ome_zarr and _process_single_image (tasks/import_ome_zarr.py) *)

\* An image group: the sub-groups and the `tables` attribute of its tables
\* group, its omero metadata ("none": no omero attribute, "empty": an empty
\* channels list, "channels": some channels) and whether the omero attribute
\* was rewritten with the updated channels.
\* The outcome of _process_single_image on an image group: the exception
\* raised ("" when it returns) and the image group after the call.  A
\* grid_YX_shape of <<>> stands for None.
_process_single_image(image, add_image_ROI_table, add_grid_ROI_table, update_omero_metadata, grid_YX_shape, overwrite) ==
    IF ~(add_image_ROI_table \/ add_grid_ROI_table)
    THEN [error |-> "", image |-> image]
    ELSE IF add_grid_ROI_table /\ grid_YX_shape = <<>>
    THEN [error |-> "ValueError", image |-> image]
    ELSE LET first == IF add_image_ROI_table
                      THEN write_table(image.group, image.tables,
                                       "image_ROI_table", 1, overwrite)
                      ELSE [status |-> "ok", group |-> image.group,
                            tables |-> image.tables]
             second == IF add_grid_ROI_table
                       THEN write_table(first.group, first.tables,
                                        "grid_ROI_table", 1, overwrite)
                       ELSE [status |-> "ok", group |-> first.group,
                             tables |-> first.tables]
             written == [image EXCEPT !.group = second.group,
                                      !.tables = second.tables]
         IN  IF first.status # "ok"
             THEN [error |-> first.status, image |-> image]
             ELSE IF second.status # "ok"
             THEN [error |-> second.status,
                   image |-> [image EXCEPT !.group = first.group,
                                           !.tables = first.tables]]
             ELSE IF ~update_omero_metadata
             THEN [error |-> "", image |-> written]
             ELSE IF image.omero \in {"none", "empty"}
             THEN [error |-> "NotImplementedError", image |-> written]
             ELSE [error |-> "", image |-> [written EXCEPT !.omero_updated = TRUE]]

\* The image groups of the OME-Zarr (an image, or the images of a well or of
\* the wells of a plate), some of them with ROI tables written before.
ExistingTables ==
    { <<>>, <<"image_ROI_table">>, <<"grid_ROI_table">>,
      <<"image_ROI_table", "grid_ROI_table">> }

ImageGroups ==
    { [group |-> [n \in Items(listed) |-> 1], tables |-> listed,
       omero |-> omero, omero_updated |-> FALSE] :
        listed \in ExistingTables, omero \in {"none", "empty", "channels"} }

ImportInit ==
    /\ pc = "import"
    /\ CoreIdle
    /\ FrameIdle
    /\ ValidIdle
    /\ AcqIdle
    /\ NgffIdle
    /\ TablesIdle
    /\ import_args \in [call : {"import_ome_zarr"},
                         add_image_ROI_table : BOOLEAN,
                         add_grid_ROI_table : BOOLEAN,
                         update_omero_metadata : BOOLEAN,
                         overwrite : BOOLEAN]
    /\ image_groups \in UNION { [1..n -> ImageGroups] : n \in 1..MaxWellImages }
    /\ i_image = 0
    /\ import_error = ""

\* One call of _process_single_image by import_ome_zarr, with
\* grid_YX_shape = (grid_y_shape, grid_x_shape); an exception ends the task,
\* and after the last image the task returns.
ProcessSingleImage ==
    /\ pc = "import"
    /\ i_image < Len(image_groups)
    /\ LET out == _process_single_image(image_groups[i_image + 1],
                       import_args.add_image_ROI_table,
                       import_args.add_grid_ROI_table,
                       import_args.update_omero_metadata,
                       <<2, 2>>, import_args.overwrite)
       IN  /\ image_groups' = [image_groups EXCEPT ![i_image + 1] = out.image]
           /\ import_error' = out.error
           /\ i_image' = IF out.error = "" THEN i_image + 1 ELSE i_image
           /\ pc' = IF out.error # "" THEN "import_failed"
                    ELSE IF i_image + 1 = Len(image_groups) THEN "import_done"
                    ELSE "import"
    /\ UNCHANGED <<import_args, CoreVars, frame_vars, valid_vars, acq_vars,
                   ngff_vars, tables_vars>>

SpecImport == ImportInit /\ [][ProcessSingleImage]_vars

----------------------------------------------------------------------------
(* Properties of convert_ROI_table_to_indices *)

ConvDone == pc = "conv_done"

\* The pixel sizes the claims prescribe at the level of the call.
ClaimedPxl ==
    << full_res_pxl_sizes_zyx[1],
       full_res_pxl_sizes_zyx[2] * Pow(coarsening_xy, level),
       full_res_pxl_sizes_zyx[3] * Pow(coarsening_xy, level) >>

\* The six physical quantities of a row, in the order of the index list.
RowQuantities(row) ==
    << row.z, row.z + row.len_z, row.y, row.y + row.len_y,
       row.x, row.x + row.len_x >>

AxisOf(j) == (j + 1) \div 2

\* k is an integer within half a pixel of n / d.
WithinHalfPixel(k, n, d) == 2 * Abs(k * d - n) <= d

\* k is n / d rounded to nearest, a tie going to the even neighbour.
NearestTiesEven(k, n, d) ==
    /\ WithinHalfPixel(k, n, d)
    /\ (2 * Abs(k * d - n) = d) => (k % 2 = 0)

\* n / d rounds to a negative integer: n / d < -1/2.
RoundsNegative(n, d) == 2 * n < -d

RowRoundsNegative(row) ==
    \E j \in 1..6 : RoundsNegative(RowQuantities(row)[j], ClaimedPxl[AxisOf(j)])

\* C1: the conversion returns one six-integer range per row of the table, in
\* the row order of the table (entry i lies within half a pixel of row i on
\* every axis), and an empty table gives an empty list without an error.
C1_OneRangePerRowInOrder ==
    ConvDone =>
        /\ (Len(ROI) = 0 =>
                conv_out.status = "ok" /\ conv_out.list_indices = <<>>)
        /\ (conv_out.status = "ok" =>
                /\ Len(conv_out.list_indices) = Len(ROI)
                /\ \A i \in 1..Len(ROI) :
                      /\ Len(conv_out.list_indices[i]) = 6
                      /\ \A j \in 1..6 :
                            /\ conv_out.list_indices[i][j] \in Int
                            /\ WithinHalfPixel(conv_out.list_indices[i][j],
                                               RowQuantities(ROI[i])[j],
                                               ClaimedPxl[AxisOf(j)]))

C1_Witness ==
    /\ ConvDone
    /\ conv_out.status = "ok"
    /\ Len(ROI) = 2
    /\ conv_out.list_indices[1] # conv_out.list_indices[2]

C3_NegativeIndexRaises ==
    ConvDone =>
        LET bad == { i \in 1..Len(ROI) : RowRoundsNegative(ROI[i]) }
        IN  IF bad = {}
            THEN conv_out.status = "ok"
            ELSE LET first == CHOOSE i \in bad : \A k \in bad : i <= k
                 IN  /\ conv_out.status = "ValueError"
                     /\ conv_out.list_indices = <<>>
                     /\ conv_out.error.ROI_name = first
                     /\ conv_out.error.zyx_position =
                            <<ROI[first].z, ROI[first].y, ROI[first].x>>
                     /\ conv_out.error.zyx_pxl_sizes = ClaimedPxl
                     /\ conv_out.error.level = level

\* The first row converts, the second one does not.
C3_Witness ==
    /\ ConvDone
    /\ conv_out.status = "ValueError"
    /\ conv_out.error.ROI_name = 2
    /\ ROI[2].z >= 0
    /\ ROI[2].x < 0

----------------------------------------------------------------------------
(* Properties of the origin reset *)

OriginDone == pc \in {"origin_fov_done", "origin_well_done"}

\* C4: after the origin reset applied by prepare_FOV_ROI_table and
\* prepare_well_ROI_table, a non-empty table has, on each of the axes x, y
\* and z, minimum position exactly zero, and no negative position.
C4_ZeroOriginAfterReset ==
    (OriginDone /\ Len(df) > 0) =>
        /\ adata.status = "ok"
        /\ Len(adata.table) > 0
        /\ \A col \in {"x", "y", "z"} :
              /\ \E i \in 1..Len(adata.table) : adata.table[i][col] = 0
              /\ \A i \in 1..Len(adata.table) : adata.table[i][col] >= 0

\* A FOV table of two fields whose minimum is not in the first row and is
\* negative before the reset.
C4_Witness ==
    /\ pc = "origin_fov_done"
    /\ Len(df) = 2
    /\ df[1].x_micrometer = 5 /\ df[2].x_micrometer = -2
    /\ df[1].y_micrometer = 1 /\ df[2].y_micrometer = 4
    /\ adata.table[1].x = 7 /\ adata.table[2].x = 0
    /\ adata.table[1].y = 0 /\ adata.table[2].y = 3

----------------------------------------------------------------------------
(* Properties of the compositor calls *)

PreDone == pc = "pre_done"
PostDone == pc = "post_done"

\* The arrays compared by the post-segmentation phase are all 3D and of one shape.
PostArgsConsistent ==
    /\ Len(comp_args.new_label_array.shape) = 3
    /\ comp_args.old_label_array.shape = comp_args.new_label_array.shape
    /\ comp_args.background_3D.shape = comp_args.new_label_array.shape

\* C6: with masking, the post-segmentation result equals the prior array at
\* every voxel where the background mask is true and the fresh segmentation
\* at every voxel where it is false (so an all-true mask gives the prior array
\* and an all-false mask the fresh one).
C6_PostRestoresBackground ==
    (PostDone /\ comp_args.use_masks /\ PostArgsConsistent) =>
        /\ comp_ret.status = "ok"
        /\ comp_ret.labels.shape = comp_args.new_label_array.shape
        /\ \A i \in 1..Len(comp_args.new_label_array.data) :
              comp_ret.labels.data[i] =
                  IF comp_args.background_3D.data[i]
                  THEN comp_args.old_label_array.data[i]
                  ELSE comp_args.new_label_array.data[i]

\* A mixed mask over two voxels on which the prior and fresh arrays differ.
C6_Witness ==
    /\ PostDone /\ comp_args.use_masks /\ PostArgsConsistent
    /\ comp_args.background_3D.data = <<TRUE, FALSE>>
    /\ comp_args.old_label_array.data = <<2, 2>>
    /\ comp_args.new_label_array.data = <<1, 1>>
    /\ comp_ret.labels.data = <<2, 1>>

\* The inputs of the pre-segmentation phase are well formed: a 4D image, a
\* label column, a primary array of the image's ZYX shape holding the label.
PreArgsWellFormed ==
    /\ Len(comp_args.image_array.shape) = 4
    /\ "label" \in comp_args.obs.columns
    /\ comp_args.primary_label_array.shape = Tail(comp_args.image_array.shape)
    /\ \E i \in 1..Len(comp_args.primary_label_array.data) :
          comp_args.primary_label_array.data[i] = comp_args.obs.label

\* The ZYX position (in C order) of the voxel at position i of a 4D array.
ZyxOf(i, shape) == ((i - 1) % Size(Tail(shape))) + 1

\* C7: with masking and any number of channels, the returned intensity is 0
\* on every channel where primary != label_value and the original value where
\* primary == label_value, the returned mask is (primary != label_value) and
\* the third value is the prior content of the output label array.
C7_PreMasksEveryChannel ==
    (PreDone /\ comp_args.use_masks /\ PreArgsWellFormed) =>
        /\ comp_ret.status = "ok"
        /\ comp_ret.image.shape = comp_args.image_array.shape
        /\ \A i \in 1..Len(comp_args.image_array.data) :
              comp_ret.image.data[i] =
                  IF comp_args.primary_label_array.data[
                         ZyxOf(i, comp_args.image_array.shape)] # comp_args.obs.label
                  THEN 0
                  ELSE comp_args.image_array.data[i]
        /\ comp_ret.background_3D.shape = comp_args.primary_label_array.shape
        /\ \A v \in 1..Len(comp_args.primary_label_array.data) :
              comp_ret.background_3D.data[v] =
                  (comp_args.primary_label_array.data[v] # comp_args.obs.label)
        /\ comp_ret.current_label = comp_args.current_label_array

\* C8: with masking, if no voxel of the primary array equals the label value
\* the pre-segmentation phase raises, and the intensity array is as before.
C8_MissingLabelRaises ==
    ( /\ PreDone /\ comp_args.use_masks
      /\ "label" \in comp_args.obs.columns
      /\ \A i \in 1..Len(comp_args.primary_label_array.data) :
            comp_args.primary_label_array.data[i] # comp_args.obs.label ) =>
        /\ comp_ret.status = "ValueError"
        /\ image_array = comp_args.image_array

\* The only thing wrong with the call is the missing label.
C8_Witness ==
    /\ PreDone /\ comp_args.use_masks
    /\ comp_args.image_array.shape = <<1, 1, 1, 2>>
    /\ comp_args.primary_label_array.shape = <<1, 1, 2>>
    /\ comp_args.primary_label_array.data = <<1, 0>>
    /\ comp_args.obs.columns = {"label"}
    /\ comp_args.obs.label = 2
    /\ comp_ret.status = "ValueError"

\* C9: the pre-segmentation phase raises for an image that is not 4D (with or
\* without masking) and, with masking, for a primary array whose shape is not
\* the image's ZYX shape; the post-segmentation phase with masking raises
\* unless fresh, prior and mask arrays are 3D and of one shape; in each case
\* the caller's arrays are as before.
C9_ShapeChecksPrecede ==
    /\ (PreDone /\ Len(comp_args.image_array.shape) # 4) =>
            comp_ret.status = "ValueError" /\ image_array = comp_args.image_array
    /\ ( /\ PreDone /\ comp_args.use_masks
          /\ Len(comp_args.image_array.shape) = 4
          /\ comp_args.primary_label_array.shape # Tail(comp_args.image_array.shape) ) =>
            comp_ret.status = "ValueError" /\ image_array = comp_args.image_array
    /\ (PostDone /\ comp_args.use_masks /\ ~PostArgsConsistent) =>
            /\ comp_ret.status = "ValueError"
            /\ new_label_array = comp_args.new_label_array

\* Fresh and prior arrays agree, only the mask has another shape.
C9_Witness ==
    /\ PostDone /\ comp_args.use_masks
    /\ comp_args.new_label_array.shape = <<1, 1, 2>>
    /\ comp_args.old_label_array.shape = <<1, 1, 2>>
    /\ comp_args.background_3D.shape = <<1, 2, 1>>
    /\ comp_args.background_3D.data = <<TRUE, TRUE>>
    /\ comp_args.old_label_array.data # comp_args.new_label_array.data
    /\ comp_ret.status = "ValueError"

\* C10 as claimed: after a successful masked call the caller's intensity
\* array and fresh label array hold the values they held before the call.
C10_ArgumentsUntouched ==
    /\ (PreDone /\ comp_args.use_masks /\ comp_ret.status = "ok") =>
            image_array = comp_args.image_array
    /\ (PostDone /\ comp_args.use_masks /\ comp_ret.status = "ok") =>
            new_label_array = comp_args.new_label_array

\* C10 as amended: a successful masked call works in place.  The caller's
\* intensity array is the returned masked array and differs from its value
\* before the call exactly at the background voxels that were not already 0;
\* the caller's fresh label array is the returned restored array and differs
\* from its value before the call only at background voxels.  A call that
\* raises leaves the caller's array as it was.
C10_ArgumentsUpdatedInPlace ==
    /\ (PreDone /\ comp_args.use_masks /\ comp_ret.status = "ok") =>
            /\ image_array = comp_ret.image
            /\ \A i \in 1..Len(image_array.data) :
                  image_array.data[i] =
                      IF comp_ret.background_3D.data[ZyxOf(i, image_array.shape)]
                      THEN 0 ELSE comp_args.image_array.data[i]
    /\ (PostDone /\ comp_args.use_masks /\ comp_ret.status = "ok") =>
            /\ new_label_array = comp_ret.labels
            /\ \A i \in 1..Len(new_label_array.data) :
                  new_label_array.data[i] =
                      IF comp_args.background_3D.data[i]
                      THEN comp_args.old_label_array.data[i]
                      ELSE comp_args.new_label_array.data[i]
    /\ (PreDone /\ comp_ret.status # "ok") => image_array = comp_args.image_array
    /\ (PostDone /\ comp_ret.status # "ok") =>
            new_label_array = comp_args.new_label_array

\* The masked call changed a background voxel of the caller's intensity array.
C10_Witness ==
    /\ PreDone /\ comp_args.use_masks /\ comp_ret.status = "ok"
    /\ comp_args.image_array.data = <<5, 6>>
    /\ image_array.data = <<5, 0>>

----------------------------------------------------------------------------
(* Properties of the loop over the ROIs *)

\* The voxels of the last processed ROI that lie outside its primary object.
LastBackground ==
    { v \in RegionVoxels(list_indices[i_ROI], mask_zarr.shape) :
        primary_label.data[v] # ROI_table_obs[i_ROI].label }

\* C5: with masking, after a ROI was processed and written, every voxel of
\* its region outside its primary object holds the label it held in the
\* output array right before the ROI was processed, with or without
\* relabeling.
C5_BackgroundLabelsPreserved ==
    (pc \in {"loop", "loop_end"} /\ use_masks /\ i_ROI >= 1) =>
        \A v \in LastBackground : mask_zarr.data[v] = prev_mask_zarr.data[v]

----------------------------------------------------------------------------
(* Properties of get_image_grid_ROIs *)

GridDone == pc = "grid_done"

\* The pixels of the YX plane a grid row covers.
CellPixels(row) ==
    { <<y, x>> : y \in (row.y \div pixels_ZYX[2])
                        .. ((row.y + row.len_y) \div pixels_ZYX[2]) - 1,
                 x \in (row.x \div pixels_ZYX[3])
                        .. ((row.x + row.len_x) \div pixels_ZYX[3]) - 1 }

\* Area of a grid row, in pixels.
CellArea(row) ==
    (row.len_y \div pixels_ZYX[2]) * (row.len_x \div pixels_ZYX[3])

RECURSIVE SumOfAreas(_)
SumOfAreas(table) ==
    IF Len(table) = 0 THEN 0 ELSE CellArea(table[1]) + SumOfAreas(Tail(table))

\* Row i comes before row j in Y-outer, X-inner order.
RowMajorBefore(a, b) == a.y < b.y \/ (a.y = b.y /\ a.x < b.x)

\* C11: for every extent (Y, X) >= 1 and every grid (gy, gx) >= 1 the table
\* has gy*gx rows named ROI_1.. in Y-outer X-inner order, whose YX pixel
\* extents are pairwise disjoint and cover exactly [0,Y) x [0,X), the areas
\* summing to Y*X, and each row spans the full Z extent.
C11_GridTilesImage ==
    GridDone =>
        LET t == grid_out.table
            grid == GridShapeOf(grid_ROI_shape)
        IN  /\ Len(t) = grid[1] * grid[2]
            /\ \A i \in 1..Len(t) : t[i].name = i
            /\ \A i, j \in 1..Len(t) : i < j => RowMajorBefore(t[i], t[j])
            /\ \A i, j \in 1..Len(t) :
                   i # j => CellPixels(t[i]) \cap CellPixels(t[j]) = {}
            /\ UNION { CellPixels(t[i]) : i \in 1..Len(t) }
                   = (0..array_shape[2] - 1) \X (0..array_shape[3] - 1)
            /\ SumOfAreas(t) = array_shape[2] * array_shape[3]
            /\ \A i \in 1..Len(t) :
                   t[i].z = 0 /\ t[i].len_z = array_shape[1] * pixels_ZYX[1]

\* C12: no grid row is empty or of negative size, whether or not the grid
\* size divides the extent or exceeds it.
C12_NoEmptyGridCell ==
    GridDone =>
        \A i \in 1..Len(grid_out.table) :
            grid_out.table[i].len_y > 0 /\ grid_out.table[i].len_x > 0

----------------------------------------------------------------------------
(* Properties of check_valid_ROI_indices *)

CheckDone == pc = "check_done"

\* The start indices of the entries along axis a (1 = Z, 2 = Y, 3 = X).
StartsAlong(a) ==
    { checked_indices[i][2 * a - 1] : i \in 1..Len(checked_indices) }

\* The axes along which the entries have a minimum start that is not zero.
OffendingAxes ==
    { a \in 1..3 : /\ StartsAlong(a) # {}
                   /\ \E m \in StartsAlong(a) :
                         m # 0 /\ \A n \in StartsAlong(a) : m <= n }

FirstOffendingAxis == CHOOSE a \in OffendingAxes : \A b \in OffendingAxes : a <= b

MinStartAlong(a) == CHOOSE m \in StartsAlong(a) : \A n \in StartsAlong(a) : m <= n

ClaimedCheckOutcome(out) ==
    LET applies == ROI_table_name \in {"FOV_ROI_table", "well_ROI_table"}
    IN  /\ out.status # "ok" <=> (applies /\ OffendingAxes # {})
        /\ out.status # "ok" =>
              /\ OffendingAxes # {}
              /\ out.axis = <<"Z", "Y", "X">>[FirstOffendingAxis]
              /\ out.min_index = MinStartAlong(FirstOffendingAxis)

\* C13: both implementations raise exactly when the table is FOV_ROI_table
\* or well_ROI_table and some per-axis minimum start is not zero; the error
\* names the first such axis in Z, Y, X order and its minimum; any other
\* table name returns without error.
C13_RaisesIffNonZeroOrigin ==
    CheckDone => ClaimedCheckOutcome(check_out) /\ ClaimedCheckOutcome(v1_check_out)

----------------------------------------------------------------------------
(* Properties of array_to_bounding_box_table *)

BBoxDone == pc \in {"bbox_done", "bbox_converted"}

MaskValues == { mask_array.data[j] : j \in 1..Len(mask_array.data) }

PositiveValues == { v \in MaskValues : v > 0 }

\* The coordinates along axis a (1 = Z, 2 = Y, 3 = X) of the voxels equal to v.
CoordsAlong(v, a) ==
    { CoordsOf(j, mask_array.shape)[a] :
        j \in { k \in 1..Len(mask_array.data) : mask_array.data[k] = v } }

IsLeast(m, S) == m \in S /\ \A n \in S : m <= n

IsGreatest(m, S) == m \in S /\ \A n \in S : m >= n

\* Position and extent of a row along axis a.
RowPosition(row, a) == <<row.z, row.y, row.x>>[a]

RowExtent(row, a) == <<row.len_z, row.len_y, row.len_x>>[a]

\* The row is the minimal box of the voxels equal to its label.
IsMinimalBox(row) ==
    \A a \in 1..3 :
        \E lo, hi \in CoordsAlong(row.label, a) :
            /\ IsLeast(lo, CoordsAlong(row.label, a))
            /\ IsGreatest(hi, CoordsAlong(row.label, a))
            /\ RowPosition(row, a) = lo * pxl_sizes_zyx[a]
            /\ RowExtent(row, a) = (hi + 1 - lo) * pxl_sizes_zyx[a]

\* C14: one row per distinct value > 0 of the label array, in ascending
\* label order, each the minimal axis-aligned box of its label; zero and
\* negative values give no row, and an array without positive labels gives a
\* zero-row table with the full column schema and no error.
C14_OneMinimalBoxPerLabel ==
    BBoxDone =>
        LET t == bbox_ref.table
        IN  /\ bbox_ref.status = "ok"
            /\ Len(t) = Cardinality(PositiveValues)
            /\ { t[i].label : i \in 1..Len(t) } = PositiveValues
            /\ \A i, j \in 1..Len(t) : i < j => t[i].label < t[j].label
            /\ \A i \in 1..Len(t) : IsMinimalBox(t[i])
            /\ bbox_ref.columns = BBoxColumns

\* Two labels, one of them enclosing the other and a negative value; and an
\* array without positive labels.
C14_Witness ==
    /\ BBoxDone
    /\ mask_array.data = <<1, 2, -1, 1>>
    /\ pxl_sizes_zyx[3] = 2
    /\ Len(bbox_ref.table) = 2
    /\ bbox_ref.table[1].label = 1 /\ bbox_ref.table[1].len_x = 8
    /\ bbox_ref.table[2].label = 2 /\ bbox_ref.table[2].x = 2

C14_WitnessEmpty ==
    BBoxDone /\ PositiveValues = {} /\ Len(bbox_ref.table) = 0

\* C15: with an origin, every row's position is the position for origin
\* (0,0,0) plus origin_zyx * pixel size on the matching axis, while extents,
\* labels and row order are those of origin (0,0,0).
C15_OriginShiftsPositionsOnly ==
    BBoxDone =>
        /\ Len(bbox_out.table) = Len(bbox_ref.table)
        /\ \A i \in 1..Len(bbox_out.table) :
              /\ bbox_out.table[i].label = bbox_ref.table[i].label
              /\ \A a \in 1..3 :
                    /\ RowPosition(bbox_out.table[i], a)
                          = RowPosition(bbox_ref.table[i], a)
                            + origin_zyx[a] * pxl_sizes_zyx[a]
                    /\ RowExtent(bbox_out.table[i], a)
                          = RowExtent(bbox_ref.table[i], a)

C15_Witness ==
    /\ BBoxDone
    /\ origin_zyx = <<0, 1, 2>>
    /\ pxl_sizes_zyx = <<1, 2, 2>>
    /\ Len(bbox_out.table) = 2
    /\ bbox_out.table[2].x = 6 /\ bbox_ref.table[2].x = 2

\* The label array holds value v exactly on the box b = [z0, z1, y0, y1, x0,
\* x1] (ends exclusive) and zero elsewhere.
IsFilledBox(b, v) ==
    \A j \in 1..Len(mask_array.data) :
        LET c == CoordsOf(j, mask_array.shape)
            inside == /\ b[1] <= c[1] /\ c[1] < b[2]
                      /\ b[3] <= c[2] /\ c[2] < b[4]
                      /\ b[5] <= c[3] /\ c[3] < b[6]
        IN  mask_array.data[j] = IF inside THEN v ELSE 0

\* The non-empty boxes inside the label array.
BoxesInside ==
    LET Ranges(n) == { r \in (0..n) \X (0..n) : r[1] < r[2] }
    IN  { <<rz[1], rz[2], ry[1], ry[2], rx[1], rx[2]>> :
            rz \in Ranges(mask_array.shape[1]),
            ry \in Ranges(mask_array.shape[2]),
            rx \in Ranges(mask_array.shape[3]) }

ShiftedBox(b) ==
    << b[1] + origin_zyx[1], b[2] + origin_zyx[1],
       b[3] + origin_zyx[2], b[4] + origin_zyx[2],
       b[5] + origin_zyx[3], b[6] + origin_zyx[3] >>

\* C16: for a label array holding one filled box of known bounds and label,
\* the bounding-box table has one row with that label, and converting it
\* back at level 0 with the same pixel sizes gives the known bounds shifted
\* by origin_zyx.
C16_BoxRoundTrip ==
    pc = "bbox_converted" =>
        \A b \in BoxesInside : \A v \in 1..MaxBBoxLabel :
            IsFilledBox(b, v) =>
                /\ Len(bbox_out.table) = 1
                /\ bbox_out.table[1].label = v
                /\ bbox_indices.status = "ok"
                /\ bbox_indices.list_indices = << ShiftedBox(b) >>

C16_Witness ==
    /\ pc = "bbox_converted"
    /\ IsFilledBox(<<0, 1, 0, 1, 1, 3>>, 2)
    /\ origin_zyx = <<0, 1, 2>>
    /\ pxl_sizes_zyx = <<1, 2, 2>>
    /\ bbox_indices.list_indices = << <<0, 1, 1, 2, 3, 5>> >>

----------------------------------------------------------------------------
(* Properties of prepare_well_ROI_table *)

WellDone == pc = "origin_well_done"

\* Start and end of every field of view along an axis.
FovStarts(mu) ==
    { <<df[i].x_micrometer, df[i].y_micrometer, df[i].z_micrometer>>[mu] :
        i \in 1..Len(df) }

FovEnds(mu) ==
    { << df[i].x_micrometer + df[i].x_pixel * df[i].pixel_size_x,
         df[i].y_micrometer + df[i].y_pixel * df[i].pixel_size_y,
         df[i].z_micrometer + df[i].z_pixel * df[i].pixel_size_z >>[mu] :
        i \in 1..Len(df) }

\* C17: for a non-empty set of field-of-view records the well table has
\* exactly one row, whose extent on each axis is the largest field end minus
\* the smallest field start, and whose position is zero on every axis.
C17_WellSpansAllFields ==
    (WellDone /\ Len(df) > 0) =>
        /\ adata.status = "ok"
        /\ Len(adata.table) = 1
        /\ LET row == adata.table[1]
           IN  /\ row.x = 0 /\ row.y = 0 /\ row.z = 0
               /\ \A mu \in 1..3 :
                     \E lo \in FovStarts(mu), hi \in FovEnds(mu) :
                        /\ \A n \in FovStarts(mu) : lo <= n
                        /\ \A n \in FovEnds(mu) : hi >= n
                        /\ <<row.len_x, row.len_y, row.len_z>>[mu] = hi - lo

\* Two fields of view at different places and of different widths.
C17_Witness ==
    /\ WellDone
    /\ Len(df) = 2
    /\ df[1].x_micrometer = 5 /\ df[1].x_pixel = 3
    /\ df[2].x_micrometer = -2 /\ df[2].z_micrometer = 3
    /\ df[1].z_micrometer = 0 /\ df[1].y_micrometer # df[2].y_micrometer
    /\ adata.table[1].len_x = 10
    /\ adata.table[1].len_z = 6

----------------------------------------------------------------------------
(* Properties of convert_ROI_table_to_indices across pyramid levels *)

LevelsDone == pc = "levels_done"

\* C18: for a ROI of non-negative position, positive pixel sizes and a
\* coarsening factor >= 1, every Y and X index at the coarser level is at
\* most the same index at the finer level, and the Z indices are equal.
C18_IndicesMonotonicInLevel ==
    (LevelsDone /\ ROI[1].x >= 0 /\ ROI[1].y >= 0 /\ ROI[1].z >= 0) =>
        /\ conv_out.status = "ok"
        /\ conv_out_2.status = "ok"
        /\ LET fine == conv_out.list_indices[1]
               coarse == conv_out_2.list_indices[1]
           IN  /\ \A k \in 3..6 : coarse[k] <= fine[k]
               /\ coarse[1] = fine[1]
               /\ coarse[2] = fine[2]

\* A ROI whose X indices shrink from level 0 to level 2, at a Z position
\* that is not zero.
C18_Witness ==
    /\ LevelsDone
    /\ level = 0 /\ level_2 = 2 /\ coarsening_xy = 2
    /\ ROI[1].x = 5 /\ ROI[1].z = 3
    /\ full_res_pxl_sizes_zyx = <<1, 1, 1>>
    /\ conv_out.list_indices[1][5] = 5
    /\ conv_out_2.list_indices[1][5] = 1
    /\ conv_out_2.list_indices[1][1] = 3

----------------------------------------------------------------------------
(* Properties of get_overlapping_pairs_3D *)

OverlapDone == pc = "overlap_done"

\* The pixels of the bounding box in row i of tmp_df.
BoxPixels(i) ==
    LET row == tmp_df[i]
        p == overlap_pxl_sizes
    IN  { <<z, y, x>> :
            z \in (row.z \div p[1]) .. ((row.z + row.len_z) \div p[1]) - 1,
            y \in (row.y \div p[2]) .. ((row.y + row.len_y) \div p[2]) - 1,
            x \in (row.x \div p[3]) .. ((row.x + row.len_x) \div p[3]) - 1 }

\* The pairs of rows whose boxes share a pixel.
SharingPairs ==
    { pair \in SUBSET (1..Len(tmp_df)) :
        \E i, j \in pair :
            i # j /\ pair = {i, j} /\ BoxPixels(i) \cap BoxPixels(j) # {} }

\* C19: the result is exactly the set of unordered pairs of boxes whose pixel
\* ranges intersect on all three axes; boxes that only touch are not
\* reported; the same boxes in another order give the same pairs.
C19_ExactOverlappingPairs ==
    OverlapDone =>
        /\ overlap_out.status = "ok"
        /\ overlap_out.pairs = SharingPairs
        /\ overlap_rev.status = "ok"
        /\ { { Len(tmp_df) + 1 - i : i \in pair } : pair \in overlap_rev.pairs }
              = overlap_out.pairs

\* Three boxes: the first two overlap, the third touches the first along X
\* and overlaps the second.
C19_Witness ==
    /\ OverlapDone
    /\ Len(tmp_df) = 3
    /\ overlap_pxl_sizes = <<1, 2, 2>>
    /\ tmp_df[1].x = 0 /\ tmp_df[2].x = 2 /\ tmp_df[3].x = 4
    /\ overlap_out.pairs = { {1, 2}, {2, 3} }
    /\ overlap_rev.pairs = { {2, 3}, {1, 2} }

----------------------------------------------------------------------------
(* Properties of the bounding-box overlap check of the segmentation loop *)

RECURSIVE Concat(_)
Concat(tables) ==
    IF Len(tables) = 0 THEN <<>> ELSE tables[1].table \o Concat(Tail(tables))

\* Every bounding box produced so far, in the order of production.
AccumulatedBoxes == Concat(bbox_dataframe_list)

RECURSIVE TotalSize(_)
TotalSize(sets) ==
    IF Len(sets) = 0 THEN 0 ELSE Cardinality(sets[1]) + TotalSize(Tail(sets))

\* len(overlap_list)
ReportedPairs == TotalSize(overlap_list)

\* The overlapping unordered pairs among all the boxes produced so far.
AccumulatedOverlaps ==
    get_overlapping_pairs_3D(AccumulatedBoxes, full_res_pxl_sizes_zyx).pairs

\* C20: after each new batch of bounding boxes every unordered pair of the
\* boxes produced so far is tested, pairs of boxes from different batches
\* included, so the overlaps reported are all the overlaps among them.
C20_OverlapsAcrossBatchesReported ==
    (bounding_box_ROI_table_name /\ pc = "loop" /\ i_ROI > 0) =>
        ReportedPairs = Cardinality(AccumulatedOverlaps)

----------------------------------------------------------------------------
(* Properties of the relabeling of the loop *)

Voxels == 1..Len(mask_zarr.data)

\* C21: with relabeling, after any number of ROIs no positive label of the
\* output array denotes objects segmented in two different ROIs, and voxels
\* without an object hold 0; also with masking, when prior labels are
\* restored into the region before the shift.
C21_LabelsUniqueAcrossROIs ==
    (relabeling /\ pc \in {"loop", "loop_end"}) =>
        /\ \A v, w \in Voxels :
              (mask_zarr.data[v] > 0 /\ mask_zarr.data[v] = mask_zarr.data[w])
                  => segmented_in.data[v] = segmented_in.data[w]
        /\ \A v \in Voxels : segmented_in.data[v] = 0 => mask_zarr.data[v] = 0

----------------------------------------------------------------------------
(* Properties of the compositor calls without masking *)

\* The statement of C23 for every argument: without masking, the
\* pre-segmentation phase returns the intensity array as it was given, with no
\* mask and no prior array, and the post-segmentation phase returns the fresh
\* label array as it was given.
C23_Original_IdentityWhateverTheArguments ==
    /\ (PreDone /\ ~comp_args.use_masks) =>
          /\ comp_ret.status = "ok"
          /\ comp_ret.image = comp_args.image_array
          /\ comp_ret.background_3D = NoneArray
          /\ comp_ret.current_label = NoneArray
    /\ (PostDone /\ ~comp_args.use_masks) =>
          /\ comp_ret.status = "ok"
          /\ comp_ret.labels = comp_args.new_label_array

\* C23: without masking, the pre-segmentation phase given a four-dimensional
\* intensity array returns it with every value unchanged, with no mask and no
\* prior array, and leaves the caller's array as it was; given an array that
\* is not four-dimensional it raises ValueError; the post-segmentation phase
\* returns the fresh label array with every value unchanged, whatever the
\* prior array, the mask and their shapes are.
C23_IdentityWithoutMasks ==
    /\ (PreDone /\ ~comp_args.use_masks) =>
          IF Len(comp_args.image_array.shape) = 4
          THEN /\ comp_ret.status = "ok"
               /\ comp_ret.image = comp_args.image_array
               /\ image_array = comp_args.image_array
               /\ comp_ret.background_3D = NoneArray
               /\ comp_ret.current_label = NoneArray
          ELSE /\ comp_ret.status = "ValueError"
               /\ image_array = comp_args.image_array
    /\ (PostDone /\ ~comp_args.use_masks) =>
          /\ comp_ret.status = "ok"
          /\ comp_ret.labels = comp_args.new_label_array
          /\ new_label_array = comp_args.new_label_array

\* Without masking, a fresh label array is returned as it is although the
\* mask is true on a voxel where the prior array differs.
C23_Witness ==
    /\ PostDone /\ ~comp_args.use_masks /\ PostArgsConsistent
    /\ comp_args.background_3D.data = <<TRUE, FALSE>>
    /\ comp_args.old_label_array.data = <<2, 2>>
    /\ comp_args.new_label_array.data = <<1, 0>>
    /\ comp_ret.labels.data = <<1, 0>>

----------------------------------------------------------------------------
(* Properties of the bounding boxes recorded by the segmentation loop *)

\* <<z, y, x>> of every voxel of a region of the image.
RegionCoords(indices) ==
    { c \in (indices[1]..(indices[2] - 1)) \X (indices[3]..(indices[4] - 1))
              \X (indices[5]..(indices[6] - 1)) : TRUE }

\* The minimal box [s_z, e_z, s_y, e_y, s_x, e_x] enclosing the voxels of a
\* label in an array.
EnclosingBox(array, label) ==
    LET match == label_match(array, label)
    IN  << MatchMin(match, 1), MatchMax(match, 1) + 1,
           MatchMin(match, 2), MatchMax(match, 2) + 1,
           MatchMin(match, 3), MatchMax(match, 3) + 1 >>

\* C28: with a bounding-box table requested, after a ROI was processed every
\* row recorded for it, converted back to pixel indices at the segmentation
\* level, is the minimal box enclosing its label's voxels in the whole-image
\* output array (for a label that occurs in the region of that ROI only):
\* positions are relative to the image origin, not to the corner of the ROI.
C28_BoxesRelativeToImageOrigin ==
    (pc \in {"loop", "loop_end"} /\ bounding_box_ROI_table_name /\ i_ROI > 0) =>
        LET bbox_df == bbox_dataframe_list[i_ROI]
            back == convert_ROI_table_to_indices(bbox_df.table,
                        actual_res_pxl_sizes_zyx, 0, coarsening_xy)
        IN  /\ back.status = "ok"
            /\ \A r \in 1..Len(bbox_df.table) :
                  label_match(mask_zarr, bbox_df.table[r].label)
                          \subseteq RegionCoords(list_indices[i_ROI]) =>
                      back.list_indices[r] =
                          EnclosingBox(mask_zarr, bbox_df.table[r].label)

\* The same for the ROIs whose region starts at index (0, 0, 0).
C28_BoxesOfRegionsAtOrigin ==
    (pc \in {"loop", "loop_end"} /\ bounding_box_ROI_table_name /\ i_ROI > 0
        /\ list_indices[i_ROI][1] = 0 /\ list_indices[i_ROI][3] = 0
        /\ list_indices[i_ROI][5] = 0) =>
        LET bbox_df == bbox_dataframe_list[i_ROI]
            back == convert_ROI_table_to_indices(bbox_df.table,
                        actual_res_pxl_sizes_zyx, 0, coarsening_xy)
        IN  /\ back.status = "ok"
            /\ \A r \in 1..Len(bbox_df.table) :
                  label_match(mask_zarr, bbox_df.table[r].label)
                          \subseteq RegionCoords(list_indices[i_ROI]) =>
                      back.list_indices[r] =
                          EnclosingBox(mask_zarr, bbox_df.table[r].label)

\* A single ROI covering x in [1, 3), segmented as one object: the recorded
\* box converts back to x in [0, 2).
C28_BoxAtRegionCorner ==
    /\ pc = "loop" /\ bounding_box_ROI_table_name /\ i_ROI = 1
    /\ ~use_masks
    /\ list_indices[1] = <<0, 1, 0, 1, 1, 3>>
    /\ mask_zarr.data = <<0, 1, 1>>
    /\ bbox_dataframe_list[1].table[1].x = 0
    /\ bbox_dataframe_list[1].table[1].len_x = 2

----------------------------------------------------------------------------
(* Properties of the conversion and check of an empty table *)

\* C29: for an empty ROI table of any name, FOV_ROI_table and well_ROI_table
\* included, convert_ROI_table_to_indices returns an empty list and
\* check_valid_ROI_indices (in both implementations) on that list returns
\* without raising.
C29_EmptyTablePathIsErrorFree ==
    /\ (pc \in {"conv_done", "conv_checked"} /\ Len(ROI) = 0) =>
          /\ conv_out.status = "ok"
          /\ conv_out.list_indices = <<>>
    /\ (pc = "conv_checked" /\ Len(ROI) = 0) =>
          /\ check_out.status = "ok"
          /\ v1_check_out.status = "ok"

\* The same for the table names other than FOV_ROI_table and well_ROI_table.
C29_EmptyTableOfOtherNames ==
    (pc = "conv_checked" /\ Len(ROI) = 0
        /\ ROI_table_name \notin {"FOV_ROI_table", "well_ROI_table"}) =>
        /\ check_out.status = "ok"
        /\ v1_check_out.status = "ok"

\* An empty well_ROI_table converts to an empty list, on which the check raises.
C29_EmptyWellTableRaises ==
    /\ pc = "conv_checked" /\ Len(ROI) = 0
    /\ ROI_table_name = "well_ROI_table"
    /\ conv_out.list_indices = <<>>
    /\ check_out = EmptyMinError
    /\ v1_check_out = EmptyMinError

----------------------------------------------------------------------------
(* Properties of the table transformations *)

FrameDone == pc \in {"reset_done", "to_2D_done"}

\* The minimum of a position column of the input table.
InputMin(col) ==
    CHOOSE m \in { table_at_call[i][col] : i \in 1..Len(table_at_call) } :
        \A i \in 1..Len(table_at_call) : m <= table_at_call[i][col]

\* C22: after reset_origin or convert_ROIs_from_3D_to_2D returns (or raises)
\* the input table holds exactly the values it held before the call; the
\* table returned by reset_origin has the rows of the input in the same
\* order with the same names, extents and original positions, and each
\* position lowered by the minimum of its column; the table returned by
\* convert_ROIs_from_3D_to_2D differs from the input in len_z only.
C22_InputTableNotMutated ==
    /\ FrameDone => table_object = table_at_call
    /\ (pc = "reset_done" /\ Len(table_at_call) > 0) =>
          /\ new_adata.status = "ok"
          /\ Len(new_adata.table) = Len(table_at_call)
          /\ \A i \in 1..Len(table_at_call) :
                LET old == table_at_call[i]
                    new == new_adata.table[i]
                IN  /\ new.name = old.name
                    /\ new.len_x = old.len_x
                    /\ new.len_y = old.len_y
                    /\ new.len_z = old.len_z
                    /\ new.x_original = old.x_original
                    /\ new.y_original = old.y_original
                    /\ new.x = old.x - InputMin("x")
                    /\ new.y = old.y - InputMin("y")
                    /\ new.z = old.z - InputMin("z")
    /\ pc = "to_2D_done" =>
          /\ new_adata.status = "ok"
          /\ Len(new_adata.table) = Len(table_at_call)
          /\ \A i \in 1..Len(table_at_call) :
                \E pixel_size_z \in PixelSizesZ :
                    new_adata.table[i] =
                        [table_at_call[i] EXCEPT !.len_z = pixel_size_z]

\* A table of two rows away from the origin: the returned table is shifted,
\* the input is not.
C22_Witness ==
    /\ pc = "reset_done"
    /\ Len(table_at_call) = 2
    /\ table_at_call[1].x = 3 /\ table_at_call[2].x = -1
    /\ table_at_call[1].z = 1 /\ table_at_call[2].z = 1
    /\ new_adata.table[1].x = 4 /\ new_adata.table[2].x = 0
    /\ new_adata.table[1].z = 0
    /\ table_object[1].x = 3 /\ table_object[2].x = -1

----------------------------------------------------------------------------
(* Properties of the column check of ROI tables *)

ValidDone == pc = "valid_done"

\* The required columns that the table lacks.
AbsentColumns ==
    { c \in { "x_micrometer", "y_micrometer", "z_micrometer",
              "len_x_micrometer", "len_y_micrometer", "len_z_micrometer" } :
        c \notin var_names }

\* The first absent column in the order x, y, z, len_x, len_y, len_z.
FirstAbsentColumn ==
    IF "x_micrometer" \in AbsentColumns THEN "x_micrometer"
    ELSE IF "y_micrometer" \in AbsentColumns THEN "y_micrometer"
    ELSE IF "z_micrometer" \in AbsentColumns THEN "z_micrometer"
    ELSE IF "len_x_micrometer" \in AbsentColumns THEN "len_x_micrometer"
    ELSE IF "len_y_micrometer" \in AbsentColumns THEN "len_y_micrometer"
    ELSE "len_z_micrometer"

\* What the claim prescribes for an outcome of the column check.
ClaimedColumnOutcome(out) ==
    IF AbsentColumns = {}
    THEN out.status = "ok"
    ELSE out.status = "ValueError" /\ out.column = FirstAbsentColumn

\* C24: both implementations of are_ROI_table_columns_valid raise exactly
\* when one of the six required columns is absent, naming the first absent
\* one in the order x, y, z, len_x, len_y, len_z; other columns never make
\* them fail; and is_ROI_table_valid raises that error whatever use_masks and
\* the attributes are, so that the masked-loading check (which returns True
\* or False) is reached only with all required columns present.
C24_RaisesIffColumnAbsent ==
    ValidDone =>
        /\ ClaimedColumnOutcome(columns_out)
        /\ ClaimedColumnOutcome(v1_columns_out)
        /\ ClaimedColumnOutcome(valid_out)
        /\ ClaimedColumnOutcome(v1_valid_out)
        /\ AbsentColumns = {} =>
              /\ valid_out.value = "None" <=> ~check_use_masks
              /\ v1_valid_out.value = "None" <=> ~check_use_masks

\* A table with extra columns that lacks y and len_z, with attributes that
\* fail the masked-loading check: the error names y_micrometer.
C24_Witness ==
    /\ ValidDone
    /\ var_names = { "x_micrometer", "z_micrometer", "len_x_micrometer",
                     "len_y_micrometer", "label", "x_micrometer_original" }
    /\ check_use_masks
    /\ table_attrs.keys = {}
    /\ columns_out = ColumnError("y_micrometer")
    /\ v1_columns_out = ColumnError("y_micrometer")
    /\ valid_out = ColumnError("y_micrometer")
    /\ v1_valid_out = ColumnError("y_micrometer")

----------------------------------------------------------------------------
(* Properties of get_acquisition_paths *)

AcqDone == pc = "acq_done"

ImageNumbers == 1..Len(well_images)

SomeImageWithoutAcquisition ==
    \E i \in ImageNumbers : well_images[i].acquisition = <<>>

TwoImagesShareAcquisition ==
    \E i, j \in ImageNumbers :
        /\ i # j
        /\ well_images[i].acquisition # <<>>
        /\ well_images[i].acquisition = well_images[j].acquisition

\* C25: get_acquisition_paths returns exactly when every image has an
\* acquisition index and no two images share one, and then the mapping sends
\* the acquisition index of every image to that image's path and has one
\* entry per image; it fails with ValueError if some image has no
\* acquisition index, and with NotImplementedError if two images share an
\* acquisition index (with one of the two errors when both are the case).
C25_AcquisitionPathsOnePerImage ==
    AcqDone =>
        /\ acquisition_out.status \in {"ok", "ValueError", "NotImplementedError"}
        /\ acquisition_out.status = "ok" <=>
              ~SomeImageWithoutAcquisition /\ ~TwoImagesShareAcquisition
        /\ acquisition_out.status = "ok" =>
              /\ \A i \in ImageNumbers :
                    /\ well_images[i].acquisition[1]
                            \in DOMAIN acquisition_out.acquisition_dict
                    /\ acquisition_out.acquisition_dict[well_images[i].acquisition[1]]
                            = well_images[i].path
              /\ Cardinality(DOMAIN acquisition_out.acquisition_dict)
                    = Len(well_images)
        /\ (SomeImageWithoutAcquisition /\ ~TwoImagesShareAcquisition) =>
              acquisition_out.status = "ValueError"
        /\ (TwoImagesShareAcquisition /\ ~SomeImageWithoutAcquisition) =>
              acquisition_out.status = "NotImplementedError"

\* Three images with distinct acquisition indices, two of them with the same
\* path.
C25_Witness ==
    /\ AcqDone
    /\ well_images = << [acquisition |-> <<2>>, path |-> "0"],
                        [acquisition |-> <<1>>, path |-> "1"],
                        [acquisition |-> <<3>>, path |-> "0"] >>
    /\ acquisition_out.status = "ok"
    /\ DOMAIN acquisition_out.acquisition_dict = {1, 2, 3}
    /\ acquisition_out.acquisition_dict[3] = "0"

----------------------------------------------------------------------------
(* Properties of NgffImageMeta.coarsening_xy *)

NgffDone == pc = "ngff_done"

\* The steps between consecutive levels: step k goes from level k to k + 1.
LevelSteps == 1..(Len(level_pixel_sizes) - 1)

\* The quotient a / b rounded to the nearest integer, a tie to the even one.
RoundedQuotient(a, b) ==
    CHOOSE r \in 0..a :
        \/ 2 * Abs(a - r * b) < b
        \/ 2 * Abs(a - r * b) = b /\ r % 2 = 0

RoundedRatioX(k) ==
    RoundedQuotient(level_pixel_sizes[k + 1][3], level_pixel_sizes[k][3])

RoundedRatioY(k) ==
    RoundedQuotient(level_pixel_sizes[k + 1][2], level_pixel_sizes[k][2])

\* C30: coarsening_xy returns an integer r only if at every step between
\* consecutive levels the rounded X ratio and the rounded Y ratio both equal
\* r; it fails with NotImplementedError if the rounded X and Y ratios differ
\* at some step or if the rounded ratio differs between two steps; for an
\* image of one level it returns None.
C30_CoarseningIsTheCommonRatio ==
    NgffDone =>
        /\ (ratio_out.status = "ok" /\ ratio_out.value # <<>>) =>
              \A k \in LevelSteps :
                  /\ RoundedRatioX(k) = ratio_out.value[1]
                  /\ RoundedRatioY(k) = ratio_out.value[1]
        /\ (\/ \E k \in LevelSteps : RoundedRatioX(k) # RoundedRatioY(k)
            \/ \E j, k \in LevelSteps : RoundedRatioX(j) # RoundedRatioX(k)) =>
              ratio_out.status = "NotImplementedError"
        /\ Len(level_pixel_sizes) = 1 =>
              ratio_out.status = "ok" /\ ratio_out.value = <<>>
        /\ (Len(level_pixel_sizes) > 1 /\ ratio_out.status = "ok") =>
              ratio_out.value # <<>>

\* Three levels with X sizes 2, 5, 8 and Y sizes 2, 4, 8: the ratios 2.5,
\* 1.6 and 2 all round to 2.
C30_Witness ==
    /\ NgffDone
    /\ level_pixel_sizes = << <<1, 2, 2>>, <<1, 4, 5>>, <<1, 8, 8>> >>
    /\ ratio_out.status = "ok"
    /\ ratio_out.value = <<2>>

----------------------------------------------------------------------------
(* Properties of write_table *)

\* The position of the first occurrence of an item of a list.
FirstIndex(list, item) ==
    CHOOSE i \in 1..Len(list) :
        list[i] = item /\ \A j \in 1..(i - 1) : list[j] # item

\* How often an item occurs in a list.
Occurrences(list, item) == Cardinality({ i \in 1..Len(list) : list[i] = item })

\* The names written by the calls that were not listed before the first call.
NewlyWritten == Items(write_log) \ Items(tables_attr_init)

\* C26: a write_table call with overwrite=False for a name that exists as a
\* sub-group or is listed in `tables` fails with OverwriteNotAllowedError and
\* leaves the stored tables and the `tables` list as they were; after every
\* successful call `tables` lists every written name exactly once, the names
\* first written by these calls in the order of their first write (after the
\* names listed before), also after a rewrite with overwrite=True, whose
\* table is the one stored.
C26_OverwriteProtectedAndListedOnce ==
    last_write.status # "none" =>
        /\ (/\ ~last_write.overwrite
            /\ \/ last_write.table_name \in DOMAIN last_write.group_before
               \/ last_write.table_name \in Items(last_write.tables_before)) =>
              /\ last_write.status = "OverwriteNotAllowedError"
              /\ tables_group = last_write.group_before
              /\ tables_attr = last_write.tables_before
        /\ last_write.status = "ok" =>
              /\ last_write.table_name \in DOMAIN tables_group
              /\ tables_group[last_write.table_name] = last_write.table
        /\ \A n \in Items(write_log) : Occurrences(tables_attr, n) = 1
        /\ SubSeq(tables_attr, 1, Len(tables_attr_init)) = tables_attr_init
        /\ \A n1, n2 \in NewlyWritten :
              FirstIndex(write_log, n1) < FirstIndex(write_log, n2) =>
                  FirstIndex(tables_attr, n1) < FirstIndex(tables_attr, n2)

\* table_b and table_a written to an empty group, then table_b rewritten
\* with overwrite=True: it is listed once, before table_a, and the new table
\* is stored.
C26_Witness ==
    /\ tables_attr_init = <<>>
    /\ write_log = << "table_b", "table_a", "table_b" >>
    /\ last_write.status = "ok" /\ last_write.overwrite
    /\ last_write.group_before["table_b"] = 1
    /\ tables_group["table_b"] = 2
    /\ tables_attr = << "table_b", "table_a" >>

\* A call with overwrite=False for a name that is listed without a sub-group
\* fails and changes nothing.
C26_ListedItemRefused ==
    /\ last_write.status = "OverwriteNotAllowedError"
    /\ last_write.message = "Item"
    /\ last_write.table_name \notin DOMAIN tables_group
    /\ tables_attr = last_write.tables_before

----------------------------------------------------------------------------
(* Properties of import_ome_zarr *)

\* C27: when import_ome_zarr is called with update_omero_metadata=True and
\* returns, the omero channels of every image were updated, whatever
\* add_image_ROI_table and add_grid_ROI_table are (otherwise the task fails).
C27_OmeroUpdatedWheneverRequested ==
    (pc = "import_done" /\ import_args.update_omero_metadata) =>
        \A i \in 1..Len(image_groups) : image_groups[i].omero_updated

\* The same when at least one of the two ROI tables is requested.
C27_OmeroUpdatedWithTables ==
    (/\ pc = "import_done" /\ import_args.update_omero_metadata
     /\ import_args.add_image_ROI_table \/ import_args.add_grid_ROI_table) =>
        \A i \in 1..Len(image_groups) : image_groups[i].omero_updated

\* No table requested: the task returns and the omero metadata of an image
\* with channels was not updated.
C27_ReturnsWithoutUpdate ==
    /\ pc = "import_done"
    /\ import_args.update_omero_metadata
    /\ ~import_args.add_image_ROI_table /\ ~import_args.add_grid_ROI_table
    /\ image_groups[1].omero = "channels"
    /\ ~image_groups[1].omero_updated

====
